---------------------------- MODULE Spec2Model ----------------------------
(***************************************************************************)
(* Tracker adapters of Upload-Assistant (src/trackers/MTEAM.py,            *)
(* AUDIENCES.py, CHD.py, HDSKY.py, HHAN.py, U2.py) as a state machine.     *)
(*                                                                         *)
(* One adapter operation is one action.  The state records the operation   *)
(* last invoked together with its inputs and the answers of the            *)
(* environment (call), what the operation returned or raised (ret) and     *)
(* the HTTP requests it issued, in order (sent).  What outlives a call is   *)
(* kept apart: the adapter instance (self), the files of the release and   *)
(* the cookie file (disk), and meta['tracker_status'][tracker]             *)
(* (tracker_status).                                                       *)
(*                                                                         *)
(* Python text is a sequence of one-character strings, so that `x in s`,   *)
(* str.lower, str.upper, str.strip, str.isdigit and str() of a number are  *)
(* computed, not assumed.  A Python / JSON value is a record               *)
(* [t, n, s]: t the type, n the number (bool, int, integral float; the     *)
(* length of a list or dict), s the text of a str.                         *)
(***************************************************************************)
EXTENDS Integers, Sequences, FiniteSets, TLC

VARIABLES call, ret, sent, self, disk, tracker_status

vars == <<call, ret, sent, self, disk, tracker_status>>

-----------------------------------------------------------------------------
(* Python text                                                             *)

UpperAlpha == <<"A","B","C","D","E","F","G","H","I","J","K","L","M",
                "N","O","P","Q","R","S","T","U","V","W","X","Y","Z">>

LowerAlpha == <<"a","b","c","d","e","f","g","h","i","j","k","l","m",
                "n","o","p","q","r","s","t","u","v","w","x","y","z">>

Digits == <<"0","1","2","3","4","5","6","7","8","9">>

\* str.lower() of one character
LowerCh(c) ==
    IF \E i \in 1..26 : UpperAlpha[i] = c
    THEN LowerAlpha[CHOOSE i \in 1..26 : UpperAlpha[i] = c]
    ELSE c

\* str.upper() of one character
UpperCh(c) ==
    IF \E i \in 1..26 : LowerAlpha[i] = c
    THEN UpperAlpha[CHOOSE i \in 1..26 : LowerAlpha[i] = c]
    ELSE c

Lower(s) == [i \in 1..Len(s) |-> LowerCh(s[i])]

Upper(s) == [i \in 1..Len(s) |-> UpperCh(s[i])]

\* Python's `needle in hay` on str
Contains(hay, needle) ==
    \E i \in 0..(Len(hay) - Len(needle)) :
        \A j \in 1..Len(needle) : hay[i + j] = needle[j]

\* str.strip(): leading and trailing blanks removed
Strip(s) ==
    LET keep == {i \in 1..Len(s) : s[i] # " "}
    IN  IF keep = {} THEN <<>>
        ELSE LET lo == CHOOSE i \in keep : \A j \in keep : i <= j
                 hi == CHOOSE i \in keep : \A j \in keep : j <= i
             IN  SubSeq(s, lo, hi)

\* str.isdigit(): non-empty and every character a digit
IsDigit(s) ==
    /\ Len(s) > 0
    /\ \A i \in 1..Len(s) : \E d \in 1..10 : Digits[d] = s[i]

DigitVal(c) == (CHOOSE d \in 1..10 : Digits[d] = c) - 1

RECURSIVE ParseInt(_)
\* int() of a text of digits
ParseInt(s) ==
    IF Len(s) = 0 THEN 0
    ELSE 10 * ParseInt(SubSeq(s, 1, Len(s) - 1)) + DigitVal(s[Len(s)])

RECURSIVE NatStr(_)
\* str() of a non-negative int
NatStr(n) ==
    IF n < 10 THEN <<Digits[n + 1]>>
    ELSE NatStr(n \div 10) \o <<Digits[(n % 10) + 1]>>

IntStr(n) == IF n < 0 THEN <<"-">> \o NatStr(0 - n) ELSE NatStr(n)

-----------------------------------------------------------------------------
(* Python / JSON values                                                    *)

PyNone == [t |-> "none", n |-> 0, s |-> <<>>]

PyBool(b) == [t |-> "bool", n |-> IF b THEN 1 ELSE 0, s |-> <<>>]

PyInt(i) == [t |-> "int", n |-> i, s |-> <<>>]

\* a float with an integral value, such as 0.0
PyFloat(i) == [t |-> "float", n |-> i, s |-> <<>>]

PyStr(x) == [t |-> "str", n |-> 0, s |-> x]

\* a list of k items / a dict of k keys, its items not looked at
PyList(k) == [t |-> "list", n |-> k, s |-> <<>>]

PyDict(k) == [t |-> "dict", n |-> k, s |-> <<>>]

IsNumber(v) == v.t \in {"bool", "int", "float"}

\* Python's a == b: bool, int and float compare by value
PyEq(a, b) ==
    IF IsNumber(a) /\ IsNumber(b) THEN a.n = b.n
    ELSE IF a.t = "str" /\ b.t = "str" THEN a.s = b.s
    ELSE IF a.t = "none" /\ b.t = "none" THEN TRUE
    ELSE IF a.t = b.t THEN a.n = b.n
    ELSE FALSE

\* bool(v)
Truthy(v) ==
    CASE v.t = "none" -> FALSE
      [] v.t = "str"  -> Len(v.s) > 0
      [] OTHER        -> v.n # 0

\* str(v)
StrOf(v) ==
    CASE v.t = "none"  -> <<"N","o","n","e">>
      [] v.t = "bool"  -> IF v.n = 1 THEN <<"T","r","u","e">>
                                     ELSE <<"F","a","l","s","e">>
      [] v.t = "int"   -> IntStr(v.n)
      [] v.t = "float" -> IntStr(v.n) \o <<".","0">>
      [] v.t = "str"   -> v.s
      [] v.t = "list"  -> <<"[","]">>
      [] OTHER         -> <<"{","}">>

\* a or b
PyOr(a, b) == IF Truthy(a) THEN a ELSE b

-----------------------------------------------------------------------------
(* MTEAM._request and the response envelope                                *)
(* Console output and the text of error messages are not part of the      *)
(* state: an error is its exception class and its status.                  *)

\* httpx's exception classes and their base class
ExcParent(c) ==
    CASE c \in {"ConnectTimeout", "ReadTimeout", "WriteTimeout", "PoolTimeout"}
              -> "TimeoutException"
      [] c \in {"ConnectError", "ReadError", "RemoteProtocolError"}
              -> "TransportError"
      [] c = "TimeoutException" -> "TransportError"
      [] c \in {"TransportError", "DecodingError", "TooManyRedirects"}
              -> "RequestError"
      [] c = "RequestError" -> "HTTPError"
      [] OTHER -> "Exception"

RECURSIVE IsInstance(_, _)
\* isinstance(e, base) for an exception of class c
IsInstance(c, base) ==
    IF c = base THEN TRUE
    ELSE IF c = "Exception" THEN FALSE
    ELSE IsInstance(ExcParent(c), base)

\* the envelope's `data`:
\*   shape "none": null;  "str": the text s;  "list": the items dataItems;
\*   "dict": an object whose key `data` holds the list dataItems and whose
\*           key `torrents` holds the list torItems (<<>>: key absent);
\*   "dictbad": an object whose key `data` holds a non-empty non-list value
Payload(shape, s, d, t) ==
    [shape |-> shape, s |-> s, dataItems |-> d, torItems |-> t]

NoPayload == Payload("none", <<>>, <<>>, <<>>)

\* a missing `data` key reads as {} (response_json.get('data', {}))
EmptyDictPayload == Payload("dict", <<>>, <<>>, <<>>)

\* the parsed body of a response
\*   json = "invalid": response.json() raises
\*   json = "other":   valid JSON that is not an object
\*   json = "dict":    an object with code / message / data
Body(json, code, message, data) ==
    [json |-> json, code |-> code, message |-> message, data |-> data]

InvalidBody == Body("invalid", PyNone, PyNone, NoPayload)

NotDictBody == Body("other", PyNone, PyNone, NoPayload)

\* outcomes of the POST: an exception of httpx, or a response
PostRaises(e) == [kind |-> "raise", exc |-> e, status |-> 0, body |-> InvalidBody]

PostResponse(st, b) == [kind |-> "response", exc |-> "", status |-> st, body |-> b]

\* result of an operation: a returned value (of kind ty) or a raised exception
Returned(ty, v) == [kind |-> "return", exc |-> "", status |-> -1, ty |-> ty, val |-> v]

Raised(e, st) == [kind |-> "raise", exc |-> e, status |-> st, ty |-> "none", val |-> PyNone]

\* MTEAM._parse_api_response: (success, data, message)
_parse_api_response(response_json) ==
    [ success |-> \/ PyEq(response_json.code, PyInt(0))
                  \/ PyEq(response_json.code, PyStr(<<"0">>))
                  \/ StrOf(response_json.code) = <<"0">>,
      data    |-> response_json.data,
      message |-> response_json.message ]

\* _request without its `except httpx.RequestError` handler
RequestNoRequestErrorHandler(post) ==
    IF post.kind = "raise"
    THEN IF IsInstance(post.exc, "TimeoutException")
         THEN Raised("MTEAMRequestError", 0)
         ELSE Raised(post.exc, 0)
    ELSE IF post.status # 200
    THEN Raised("MTEAMRequestError", post.status)
    ELSE IF post.body.json = "invalid"
    THEN Raised("MTEAMRequestError", 200)
    ELSE IF post.body.json # "dict"
    THEN Raised("MTEAMRequestError", 200)
    ELSE IF ~_parse_api_response(post.body).success
    THEN Raised("MTEAMRequestError", 200)
    ELSE Returned("payload", _parse_api_response(post.body).data)

\* _request raising the invalid-JSON error with the default status
RequestInvalidJsonDefaultStatus(post) ==
    IF post.kind = "raise"
    THEN IF IsInstance(post.exc, "TimeoutException")
         THEN Raised("MTEAMRequestError", 0)
         ELSE IF IsInstance(post.exc, "RequestError")
         THEN Raised("MTEAMRequestError", 0)
         ELSE Raised(post.exc, 0)
    ELSE IF post.status # 200
    THEN Raised("MTEAMRequestError", post.status)
    ELSE IF post.body.json = "invalid"
    THEN Raised("MTEAMRequestError", 0)
    ELSE IF post.body.json # "dict"
    THEN Raised("MTEAMRequestError", 200)
    ELSE IF ~_parse_api_response(post.body).success
    THEN Raised("MTEAMRequestError", 200)
    ELSE Returned("payload", _parse_api_response(post.body).data)

\* MTEAM._request: what the caller gets for an outcome of the POST
_request(post) ==
    IF post.kind = "raise"
    THEN IF IsInstance(post.exc, "TimeoutException")
         THEN Raised("MTEAMRequestError", 0)
         ELSE IF IsInstance(post.exc, "RequestError")
         THEN Raised("MTEAMRequestError", 0)
         ELSE Raised(post.exc, 0)
    ELSE IF post.status # 200
    THEN Raised("MTEAMRequestError", post.status)
    ELSE IF post.body.json = "invalid"
    THEN Raised("MTEAMRequestError", 200)
    ELSE IF post.body.json # "dict"
    THEN Raised("MTEAMRequestError", 200)
    ELSE IF ~_parse_api_response(post.body).success
    THEN Raised("MTEAMRequestError", 200)
    ELSE Returned("payload", _parse_api_response(post.body).data)

\* a request on the wire
Req(method, site, search, source) ==
    [method |-> method, site |-> site, search |-> search, source |-> source]

-----------------------------------------------------------------------------
(* Initial state, the caller, and the _request operation                   *)

NoCall == [op |-> "none"]

NoResult == Raised("", 0)

\* the adapter instance: its tracker, self.api_key (MTEAM) and
\* self.ids_moe_api_key (U2), empty when not configured
Adapter(tracker, api_key, ids_moe_api_key) ==
    [tracker |-> tracker, api_key |-> api_key, ids_moe_api_key |-> ids_moe_api_key]

\* the files an adapter reads and writes: whether data/cookies/<tracker>.txt
\* exists, whether [<tracker>]DESCRIPTION.txt exists and its content, and
\* what [<tracker>].torrent holds
Disk(cookie, desc_exists, desc, torrent) ==
    [cookie |-> cookie, desc_exists |-> desc_exists, desc |-> desc, torrent |-> torrent]

\* the status record losing the torrent id
StatusWithoutTorrentId(status_message, torrent_id, offer_id) ==
    [status_message |-> status_message, torrent_id |-> [t |-> "none", n |-> 0, s |-> <<>>],
     offer_id |-> offer_id]

\* meta['tracker_status'][tracker]; PyNone for a key that is not set
TrackerStatus(status_message, torrent_id, offer_id) ==
    [status_message |-> status_message, torrent_id |-> torrent_id, offer_id |-> offer_id]

Init ==
    /\ call = NoCall
    /\ ret = NoResult
    /\ sent = <<>>
    /\ self = (Adapter("none", <<>>, <<>>))
    /\ disk = (Disk(FALSE, FALSE, <<>>, "absent"))
    /\ tracker_status = (TrackerStatus(PyNone, PyNone, PyNone))

\* the caller has read the outcome and is ready to invoke the next operation
Done ==
    /\ call.op # "none"
    /\ call' = NoCall
    /\ ret' = NoResult
    /\ sent' = <<>>
    /\ UNCHANGED <<self, disk, tracker_status>>

\* a caller awaits MTEAM._request(url, ...): one POST, then the outcome
DoRequest ==
    /\ call.op = "none"
    /\ \E post \in ({ PostRaises(e) : e \in ({"ConnectTimeout", "ReadTimeout", "ConnectError", "ReadError", "RemoteProtocolError", "DecodingError", "TooManyRedirects"}) } \cup { PostResponse(st, b) : st \in ({200, 201, 302, 400, 401, 403, 404, 500, 503}), b \in ({ InvalidBody, NotDictBody } \cup { Body("dict", c, m, d) : c \in ({ PyNone, PyInt(0), PyInt(1), PyInt(-1), PyInt(10), PyStr(<<"0">>), PyStr(<<"1">>), PyStr(<<"0","0">>), PyStr(<<" ","0">>), PyStr(<<>>), PyStr(<<"S","U","C","C","E","S","S">>), PyBool(FALSE), PyBool(TRUE), PyFloat(0), PyFloat(1), PyList(0), PyDict(0) }), m \in ({ PyNone, PyStr(<<>>), PyStr(<<"e","r","r">>) }), d \in {NoPayload, EmptyDictPayload} } \cup { Body("dict", c, PyStr(<<>>), d) : c \in {PyInt(0), PyStr(<<"0">>), PyInt(1)}, d \in ({ NoPayload, EmptyDictPayload, Payload("str", <<"h","t","t","p",":","/","/","d","l">>, <<>>, <<>>), Payload("str", <<>>, <<>>, <<>>), Payload("dictbad", <<>>, <<>>, <<>>) }) }) }) :
        /\ call' = [op |-> "_request", post |-> post]
        /\ ret' = _request(post)
        /\ sent' = <<Req("POST", "api.m-team.cc", <<>>, "")>>
    /\ UNCHANGED <<self, disk, tracker_status>>

NextRequest == DoRequest \/ Done

SpecRequest == Init /\ [][NextRequest]_vars

\* C1: whatever the POST does (timeout, any other request error, any HTTP
\* status, any body), _request either returns the envelope's data payload
\* or raises MTEAMRequestError; no other exception reaches the caller.
C1_PayloadOrTypedError ==
    call.op = "_request" =>
        \/ /\ ret.kind = "return"
           /\ call.post.kind = "response"
           /\ ret.val = call.post.body.data
        \/ /\ ret.kind = "raise"
           /\ ret.exc = "MTEAMRequestError"

\* C1 witness: a connection error (not a timeout) was wrapped
C1_Witness ==
    /\ call.op = "_request"
    /\ call.post.kind = "raise"
    /\ call.post.exc = "ConnectError"
    /\ ret.kind = "raise"
    /\ ret.exc = "MTEAMRequestError"

\* C2: an MTEAMRequestError of _request has status 0 exactly when the POST
\* failed at transport level, and otherwise the HTTP status of the response
\* (the non-200 code; 200 for invalid JSON, a non-dict body or a failure
\* envelope).
C2_StatusOfError ==
    (call.op = "_request" /\ ret.kind = "raise" /\ ret.exc = "MTEAMRequestError") =>
        /\ (ret.status = 0) <=> (call.post.kind = "raise")
        /\ call.post.kind = "response" => ret.status = call.post.status

\* C2 witness: an invalid-JSON body under HTTP 200 raised with status 200
C2_Witness ==
    /\ call.op = "_request"
    /\ call.post.kind = "response"
    /\ call.post.status = 200
    /\ call.post.body.json = "invalid"
    /\ ret.kind = "raise"
    /\ ret.status = 200

\* C3: under HTTP 200 with a dict body, _request succeeds if and only if the
\* envelope's code is the integer 0 or the string "0"; every other value
\* (missing, null, other numbers and strings, booleans) raises.
C3_SuccessIffZero ==
    (call.op = "_request" /\ call.post.kind = "response"
        /\ call.post.status = 200 /\ call.post.body.json = "dict") =>
        ( (ret.kind = "return")
          <=> (call.post.body.code \in {PyInt(0), PyStr(<<"0">>)}) )

-----------------------------------------------------------------------------
(* Duplicate search: MTEAM.search_existing                                 *)

\* _standard_id_to_res looking the id up without str()
StandardIdToResNoStr(standard_id) ==
    LET k == IF standard_id.t = "str" THEN standard_id.s ELSE <<>>
    IN  CASE k = <<"1">> -> "1080p"
          [] k = <<"2">> -> "1080i"
          [] k = <<"3">> -> "720p"
          [] k = <<"5">> -> "SD"
          [] k = <<"6">> -> "2160p"
          [] k = <<"7">> -> "8K"
          [] OTHER -> ""

\* STANDARD_ID_TO_RES, looked up by _standard_id_to_res
_standard_id_to_res(standard_id) ==
    LET k == Strip(StrOf(standard_id))
    IN  CASE k = <<"1">> -> "1080p"
          [] k = <<"2">> -> "1080i"
          [] k = <<"3">> -> "720p"
          [] k = <<"5">> -> "SD"
          [] k = <<"6">> -> "2160p"
          [] k = <<"7">> -> "8K"
          [] OTHER -> ""

\* SOURCE_ID_TO_TYPE, looked up by _source_id_to_type
_source_id_to_type(source_id) ==
    LET k == Strip(StrOf(source_id))
    IN  CASE k = <<"8">> -> "WEBDL"
          [] k = <<"1">> -> "BluRay"
          [] k = <<"4">> -> "REMUX"
          [] k = <<"5">> -> "HDTV"
          [] k = <<"3">> -> "DVD"
          [] k = <<"6">> -> "Other"
          [] OTHER -> ""

_infer_type_from_name(name) ==
    LET n == Lower(name)
    IN  IF \/ Contains(n, <<"w","e","b","-","d","l">>) \/ Contains(n, <<"w","e","b","d","l">>)
           \/ Contains(n, <<"w","e","b"," ","d","l">>) \/ Contains(n, <<"a","m","z","n">>)
           \/ Contains(n, <<"n","f"," ">>) \/ Contains(n, <<"a","t","v","p">>)
        THEN "WEBDL"
        ELSE IF \/ Contains(n, <<"b","l","u","-","r","a","y">>) \/ Contains(n, <<"b","l","u","r","a","y">>)
                \/ Contains(n, <<"u","h","d"," ","b","l","u">>) \/ Contains(n, <<"b","d","r","i","p">>)
        THEN "BluRay"
        ELSE IF Contains(n, <<"h","d","t","v">>) \/ Contains(n, <<"p","d","t","v">>)
        THEN "HDTV"
        ELSE IF Contains(n, <<"r","e","m","u","x">>)
        THEN "REMUX"
        ELSE ""

\* _infer_res_from_name without name.lower()
InferResCaseSensitive(name) ==
    LET n == name
    IN  IF Contains(n, <<"2","1","6","0","p">>) \/ Contains(n, <<"4","k">>) \/ Contains(n, <<"u","h","d">>)
        THEN "2160p"
        ELSE IF Contains(n, <<"1","0","8","0","p">>) \/ Contains(n, <<"1","0","8","0","i">>)
        THEN "1080p"
        ELSE IF Contains(n, <<"7","2","0","p">>) \/ Contains(n, <<"7","2","0","i">>)
        THEN "720p"
        ELSE IF Contains(n, <<"4","8","0","p">>) \/ Contains(n, <<"5","7","6","p">>)
        THEN "SD"
        ELSE ""

_infer_res_from_name(name) ==
    LET n == Lower(name)
    IN  IF Contains(n, <<"2","1","6","0","p">>) \/ Contains(n, <<"4","k">>) \/ Contains(n, <<"u","h","d">>)
        THEN "2160p"
        ELSE IF Contains(n, <<"1","0","8","0","p">>) \/ Contains(n, <<"1","0","8","0","i">>)
        THEN "1080p"
        ELSE IF Contains(n, <<"7","2","0","p">>) \/ Contains(n, <<"7","2","0","i">>)
        THEN "720p"
        ELSE IF Contains(n, <<"4","8","0","p">>) \/ Contains(n, <<"5","7","6","p">>)
        THEN "SD"
        ELSE ""

\* one item of the torrent list of a search response; isdict = FALSE: an
\* item that is not an object.  A missing key reads as PyNone, a missing
\* `title` as '' (torrent.get('title', ''))
Torrent(name, title, standard, source, numfiles, id) ==
    [ isdict |-> TRUE, name |-> name, title |-> title, standard |-> standard,
      source |-> source, numfiles |-> numfiles, id |-> id,
      size |-> PyStr(<<"5","1","2","0">>), labelsNew |-> PyList(1), smallDescr |-> PyStr(<<"d">>) ]

NotADictItem ==
    [ isdict |-> FALSE, name |-> PyNone, title |-> PyNone, standard |-> PyNone,
      source |-> PyNone, numfiles |-> PyNone, id |-> PyNone,
      size |-> PyNone, labelsNew |-> PyNone, smallDescr |-> PyNone ]

NameWeb == <<"a",".","1","0","8","0","p",".","W","E","B","-","D","L">>

NameUhd == <<"B",".","U","H","D",".","B","l","u","R","a","y">>

NamePlain == <<"c",".","D","V","D">>

TorrentPool ==
    { Torrent(PyStr(NameWeb), PyStr(<<>>), PyNone, PyNone, PyNone, PyNone),
      Torrent(PyStr(NameUhd), PyStr(<<>>), PyNone, PyNone, PyStr(<<"3">>), PyInt(7)),
      Torrent(PyStr(NamePlain), PyStr(<<>>), PyNone, PyNone, PyNone, PyInt(8)),
      Torrent(PyStr(NameWeb), PyStr(<<>>), PyInt(1), PyInt(8), PyInt(3), PyStr(<<"9">>)),
      Torrent(PyStr(NameWeb), PyStr(<<>>), PyInt(99), PyInt(99), PyNone, PyInt(10)),
      Torrent(PyStr(NamePlain), PyStr(<<>>), PyStr(<<"6">>), PyStr(<<" ","1"," ">>), PyNone, PyInt(11)),
      Torrent(PyStr(NameUhd), PyStr(<<>>), PyStr(<<>>), PyNone, PyNone, PyInt(12)),
      Torrent(PyStr(NameWeb), PyStr(<<>>), PyNone, PyInt(6), PyStr(<<"x">>), PyInt(0)),
      Torrent(PyNone, PyStr((<<"d",".","7","2","0","p",".","H","D","T","V">>)), PyNone, PyNone, PyNone, PyInt(13)),
      Torrent(PyStr(<<>>), PyStr((<<"d",".","7","2","0","p",".","H","D","T","V">>)), PyInt(3), PyInt(5), PyNone, PyInt(14)),
      Torrent(PyNone, PyStr(<<>>), PyNone, PyNone, PyNone, PyInt(15)),
      Torrent(PyStr(<<>>), PyNone, PyInt(1), PyNone, PyNone, PyInt(16)),
      NotADictItem,
      Torrent(PyInt(7), PyStr(<<>>), PyNone, PyNone, PyNone, PyInt(17)),
      Torrent(PyStr(NamePlain), PyStr(<<>>), PyInt(2), PyInt(4), PyNone, PyInt(18)),
      Torrent(PyStr(NameUhd), PyStr(<<>>), PyNone, PyInt(3), PyNone, PyInt(19)) }

MaxTorrents == 2

RECURSIVE SeqsUpTo(_, _)
\* the sequences over S of length at most k
SeqsUpTo(S, k) ==
    IF k = 0 THEN {<<>>}
    ELSE LET shorter == SeqsUpTo(S, k - 1)
         IN  shorter \cup {Append(q, x) : q \in shorter, x \in S}

\* the torrent list search_existing reads out of `data`
TorrentsOf(data) ==
    CASE data.shape = "list" -> data.dataItems
      [] data.shape = "dict" ->
            IF data.dataItems # <<>> THEN data.dataItems ELSE data.torItems
      [] OTHER -> <<>>

\* int(x) of a number or of a text of digits
IntOf(v) == IF v.t = "str" THEN ParseInt(Strip(v.s)) ELSE v.n

\* the entry built without the name-based fallback
EntryNoInference(torrent) ==
    LET name == StrOf(PyOr(torrent.name, torrent.title))
        tid == torrent.id
        numfiles == torrent.numfiles
    IN  [ name |-> name,
          size |-> torrent.size,
          files |-> <<>>,
          file_count |-> IF numfiles.t # "none" /\ IsDigit(StrOf(numfiles))
                         THEN IntOf(PyStr(StrOf(numfiles))) ELSE 0,
          trumpable |-> FALSE,
          link |-> IF Truthy(tid)
                   THEN PyStr(<<"h","t","t","p","s",":","/","/","k","p",".","m","-","t","e","a","m",".","c","c","/","d","e","t","a","i","l","s","/">> \o StrOf(tid))
                   ELSE PyNone,
          download |-> PyNone,
          flags |-> IF torrent.labelsNew.t = "list" THEN torrent.labelsNew ELSE PyList(0),
          id |-> tid,
          type |-> _source_id_to_type(torrent.source),
          res |-> _standard_id_to_res(torrent.standard),
          internal |-> 0,
          bd_info |-> PyNone,
          description |-> torrent.smallDescr ]

\* MTEAM.search_existing: the entry built for one torrent of the response
EntryOf(torrent) ==
    LET name == StrOf(PyOr(torrent.name, torrent.title))
        tid == torrent.id
        numfiles == torrent.numfiles
    IN  [ name |-> name,
          size |-> torrent.size,
          files |-> <<>>,
          file_count |-> IF numfiles.t # "none" /\ IsDigit(StrOf(numfiles))
                         THEN IntOf(PyStr(StrOf(numfiles))) ELSE 0,
          trumpable |-> FALSE,
          link |-> IF Truthy(tid)
                   THEN PyStr(<<"h","t","t","p","s",":","/","/","k","p",".","m","-","t","e","a","m",".","c","c","/","d","e","t","a","i","l","s","/">> \o StrOf(tid))
                   ELSE PyNone,
          download |-> PyNone,
          flags |-> IF torrent.labelsNew.t = "list" THEN torrent.labelsNew ELSE PyList(0),
          id |-> tid,
          type |-> IF torrent.source.t # "none"
                   THEN _source_id_to_type(torrent.source)
                   ELSE _infer_type_from_name(name),
          res |-> IF torrent.standard.t # "none"
                  THEN _standard_id_to_res(torrent.standard)
                  ELSE _infer_res_from_name(name),
          internal |-> 0,
          bd_info |-> PyNone,
          description |-> torrent.smallDescr ]

RECURSIVE Entries(_)
\* MTEAM.search_existing: the loop over the torrents
Entries(torrents) ==
    IF torrents = <<>> THEN <<>>
    ELSE LET torrent == Head(torrents)
         IN  IF ~torrent.isdict
             THEN Entries(Tail(torrents))
             ELSE IF ~Truthy(PyOr(torrent.name, torrent.title))
             THEN Entries(Tail(torrents))
             ELSE <<EntryOf(torrent)>> \o Entries(Tail(torrents))

\* the release record: meta.get(key); PyNone for a missing key
Meta(imdb_id, imdb, is_disc, type, resolution) ==
    [ imdb_id |-> imdb_id, imdb |-> imdb, is_disc |-> is_disc, type |-> type,
      resolution |-> resolution ]

ImdbText == <<"0","1","3","3","0","9","3">>

\* search_existing without the imdb_id == 0 return
SearchAlwaysQueries(meta, post) ==
    LET imdb == <<"t","t">> \o meta.imdb
        rq == Req("POST", "api.m-team.cc/api/torrent/search", imdb, "")
        r == _request(post)
    IN  IF r.kind = "raise" /\ r.exc = "MTEAMRequestError"
        THEN [ret |-> Returned("list", <<>>), sent |-> <<rq>>]
        ELSE IF r.kind = "raise"
        THEN [ret |-> r, sent |-> <<rq>>]
        ELSE [ret |-> Returned("list", Entries(TorrentsOf(r.val))), sent |-> <<rq>>]

\* MTEAM.search_existing: the outcome and the requests issued
MTEAM_search_existing(meta, post) ==
    LET imdb_id == IntOf(PyOr(meta.imdb_id, PyInt(0)))
    IN  IF imdb_id = 0
        THEN [ret |-> Returned("list", <<>>), sent |-> <<>>]
        ELSE LET imdb == <<"t","t">> \o meta.imdb
                 rq == Req("POST", "api.m-team.cc/api/torrent/search", imdb, "")
                 r == _request(post)
             IN  IF r.kind = "raise" /\ r.exc = "MTEAMRequestError"
                 THEN [ret |-> Returned("list", <<>>), sent |-> <<rq>>]
                 ELSE IF r.kind = "raise"
                 THEN [ret |-> r, sent |-> <<rq>>]
                 ELSE [ret |-> Returned("list", Entries(TorrentsOf(r.val))),
                       sent |-> <<rq>>]

DoMteamSearch ==
    /\ call.op = "none"
    /\ \E imdb_id \in ({ PyNone, PyStr(<<>>), PyInt(0), PyStr(<<"0">>), PyBool(FALSE), PyInt(133093), PyStr(<<"1","3","3","0","9","3">>) }), post \in ({ PostRaises("ConnectTimeout"), PostRaises("ConnectError"), PostResponse(404, InvalidBody), PostResponse(200, InvalidBody), PostResponse(200, NotDictBody), PostResponse(200, Body("dict", PyInt(1), PyStr(<<"e","r","r">>), NoPayload)) } \cup { PostResponse(200, Body("dict", PyInt(0), PyStr(<<>>), d)) : d \in ({ Payload("list", <<>>, ts, <<>>) : ts \in (SeqsUpTo(TorrentPool, MaxTorrents)) } \cup { Payload("dict", <<>>, ts, <<>>) : ts \in SeqsUpTo(TorrentPool, 1) } \cup { Payload("dict", <<>>, <<>>, ts) : ts \in SeqsUpTo(TorrentPool, 1) } \cup { Payload("dict", <<>>, <<t>>, <<NotADictItem>>) : t \in TorrentPool } \cup ({ NoPayload, EmptyDictPayload, Payload("str", <<"h","t","t","p",":","/","/","d","l">>, <<>>, <<>>), Payload("str", <<>>, <<>>, <<>>), Payload("dictbad", <<>>, <<>>, <<>>) })) }) :
        LET meta == Meta(imdb_id, ImdbText, "", "WEBDL", "1080p")
            out == MTEAM_search_existing(meta, post)
        IN  /\ call' = [op |-> "MTEAM.search_existing", meta |-> meta, post |-> post]
            /\ ret' = out.ret
            /\ sent' = out.sent
    /\ UNCHANGED <<self, disk, tracker_status>>

-----------------------------------------------------------------------------
(* Duplicate search of the cookie adapters (AUDIENCES, CHD, HDSKY, HHAN,   *)
(* U2): the five search_existing methods differ only in the site           *)

CookieTrackers == {"AUDIENCES", "CHD", "HDSKY", "HHAN", "U2"}

SiteOf(tracker) ==
    CASE tracker = "AUDIENCES" -> "audiences.me"
      [] tracker = "CHD"       -> "ptchdbits.co"
      [] tracker = "HDSKY"     -> "hdsky.me"
      [] tracker = "HHAN"      -> "hhanclub.net"
      [] OTHER                 -> "u2.dmhy.org"

\* get_type_medium_id, the same in the five adapters
get_type_medium_id(meta) ==
    LET m0 == "EXIT"
        m1 == IF meta.is_disc \in {"BDMV", "HD DVD"}
              THEN (IF meta.resolution = "2160p" THEN "1" ELSE "2") ELSE m0
        m2 == IF meta.is_disc = "DVD" THEN "7" ELSE m1
        m3 == IF meta.type = "HDTV" THEN "4" ELSE m2
        m4 == IF meta.type \in {"ENCODE", "WEBRIP"} THEN "6" ELSE m3
        m5 == IF meta.type = "REMUX" THEN "3" ELSE m4
    IN  IF meta.type = "WEBDL" THEN "5" ELSE m5

\* one row of the result table: whether it holds a details link, and the
\* link's title attribute ('' when absent)
Row(link, title) == [link |-> link, title |-> title]

MaxRows == 2

\* answers to the search GET: an exception, or a page
GetRaises(e) == [kind |-> "raise", exc |-> e, status |-> 0, rows |-> <<>>]

GetResponse(st, rows) == [kind |-> "response", exc |-> "", status |-> st, rows |-> rows]

RECURSIVE Releases(_)
\* the titles collected from the rows
Releases(rows) ==
    IF rows = <<>> THEN <<>>
    ELSE LET row == Head(rows)
         IN  IF row.link /\ row.title # <<>>
             THEN <<row.title>> \o Releases(Tail(rows))
             ELSE Releases(Tail(rows))

\* search_existing of a cookie adapter: the outcome and the requests issued
Cookie_search_existing(tracker, meta, cookie_exists, get) ==
    IF ~cookie_exists
    THEN [ret |-> Returned("bool", PyBool(FALSE)), sent |-> <<>>]
    ELSE LET imdb_id == IntOf(PyOr(meta.imdb_id, PyInt(0)))
             imdb == IF imdb_id # 0 THEN <<"t","t">> \o meta.imdb ELSE <<>>
             source == get_type_medium_id(meta)
             rq == Req("GET", SiteOf(tracker), imdb, source)
         IN  IF get.kind = "raise"
             THEN [ret |-> Returned("list", <<>>), sent |-> <<rq>>]
             ELSE IF get.status = 200
             THEN [ret |-> Returned("list", Releases(get.rows)), sent |-> <<rq>>]
             ELSE [ret |-> Returned("list", <<>>), sent |-> <<rq>>]

DoCookieSearch ==
    /\ call.op = "none"
    /\ \E tracker \in CookieTrackers, meta \in ({ Meta(i, ImdbText, d, t, "1080p") : i \in {PyNone, PyInt(0), PyInt(133093), PyStr(<<"1","3","3","0","9","3">>)}, d \in {"", "BDMV"}, t \in {"WEBDL", "REMUX", ""} }),
          cookie_exists \in BOOLEAN, get \in ({ GetRaises("ConnectTimeout"), GetRaises("ConnectError"), GetRaises("ValueError"), GetResponse(404, <<Row(TRUE, NameWeb)>>) } \cup { GetResponse(200, rows) : rows \in SeqsUpTo(({ Row(TRUE, NameWeb), Row(TRUE, NameUhd), Row(FALSE, NamePlain), Row(TRUE, <<>>) }), MaxRows) }) :
        LET out == Cookie_search_existing(tracker, meta, cookie_exists, get)
        IN  /\ call' = [op |-> "Cookie.search_existing", tracker |-> tracker,
                        meta |-> meta, cookie_exists |-> cookie_exists, get |-> get]
            /\ ret' = out.ret
            /\ sent' = out.sent
    /\ UNCHANGED <<self, disk, tracker_status>>

NextSearch == DoMteamSearch \/ DoCookieSearch \/ Done

SpecSearch == Init /\ [][NextSearch]_vars

\* C4: MTEAM.search_existing called with an imdb_id that is missing, None,
\* empty or 0 returns an empty list and issues no request.
C4_NoIdNoRequest ==
    (call.op = "MTEAM.search_existing"
        /\ call.meta.imdb_id \in {PyNone, PyStr(<<>>), PyInt(0)}) =>
        /\ ret.kind = "return"
        /\ ret.ty = "list"
        /\ ret.val = <<>>
        /\ sent = <<>>

\* C4 witness: the call had no id while the site would have listed torrents
C4_Witness ==
    /\ call.op = "MTEAM.search_existing"
    /\ call.meta.imdb_id = PyStr(<<>>)
    /\ call.post.kind = "response"
    /\ call.post.status = 200
    /\ _request(call.post).kind = "return"
    /\ Len(TorrentsOf(call.post.body.data)) = 2
    /\ ret.val = <<>>
    /\ sent = <<>>

\* C5: in the cookie adapters, search_existing called with the cookie file
\* present and no IMDb id (imdb_id missing or 0) returns an empty result
\* and sends no search request to the site.
C5_CookieNoIdShortCircuits ==
    (call.op = "Cookie.search_existing" /\ call.cookie_exists
        /\ call.meta.imdb_id \in {PyNone, PyInt(0)}) =>
        /\ ret.kind = "return"
        /\ ret.ty = "list"
        /\ ret.val = <<>>
        /\ sent = <<>>

\* the torrents of the response MTEAM.search_existing has read
SearchAnswered ==
    /\ call.op = "MTEAM.search_existing"
    /\ sent # <<>>
    /\ _request(call.post).kind = "return"

C6_Named(torrent) == torrent.isdict /\ Truthy(torrent.name)

C6_NamedOrTitled(torrent) ==
    torrent.isdict /\ (Truthy(torrent.name) \/ Truthy(torrent.title))

\* C6 as stated: one entry, in response order, for exactly the dict torrents
\* whose `name` is non-empty, with the fixed key set, res / type inferred
\* from the name when standard / source is absent or null; a torrent that
\* is not a dict or has no name yields no entry.
C6_OneEntryPerNamedTorrent ==
    SearchAnswered =>
        LET q == SelectSeq(TorrentsOf(call.post.body.data), C6_Named)
        IN  /\ ret.kind = "return"
            /\ Len(ret.val) = Len(q)
            /\ \A k \in 1..Len(q) : ret.val[k].name = StrOf(q[k].name)

\* C6 amended: one entry, in response order, for exactly the dict torrents
\* whose `name` or, failing that, `title` is non-empty; each entry has the
\* fixed key set and is named by that name or title; res equals
\* _infer_res_from_name(name) when `standard` is absent or null and type
\* equals _infer_type_from_name(name) when `source` is absent or null.
C6_OneEntryPerNamedOrTitledTorrent ==
    SearchAnswered =>
        LET q == SelectSeq(TorrentsOf(call.post.body.data), C6_NamedOrTitled)
        IN  /\ ret.kind = "return"
            /\ ret.ty = "list"
            /\ Len(ret.val) = Len(q)
            /\ \A k \in 1..Len(q) :
                /\ DOMAIN ret.val[k] = ({ "name", "size", "files", "file_count", "trumpable", "link", "download", "flags", "id", "type", "res", "internal", "bd_info", "description" })
                /\ ret.val[k].name =
                     StrOf(IF Truthy(q[k].name) THEN q[k].name ELSE q[k].title)
                /\ ret.val[k].id = q[k].id
                /\ q[k].standard = PyNone =>
                     ret.val[k].res = _infer_res_from_name(ret.val[k].name)
                /\ q[k].source = PyNone =>
                     ret.val[k].type = _infer_type_from_name(ret.val[k].name)

\* C6 witness: a response of two torrents, the first named only by its
\* title and with no standard, the second not a dict: one entry, inferred
C6_Witness ==
    /\ SearchAnswered
    /\ Len(TorrentsOf(call.post.body.data)) = 2
    /\ TorrentsOf(call.post.body.data)[1].name = PyNone
    /\ TorrentsOf(call.post.body.data)[1].standard = PyNone
    /\ ~TorrentsOf(call.post.body.data)[2].isdict
    /\ Len(ret.val) = 1
    /\ ret.val[1].res = "720p"
    /\ ret.val[1].type = "HDTV"

C7_HasResToken(name) ==
    \E tok \in { <<"2","1","6","0","p">>, <<"4","k">>, <<"u","h","d">>, <<"1","0","8","0","p">>, <<"1","0","8","0","i">>, <<"7","2","0","p">>,
                 <<"7","2","0","i">>, <<"4","8","0","p">>, <<"5","7","6","p">> } : Contains(Lower(name), tok)

C7_HasTypeToken(name) ==
    \E tok \in { <<"w","e","b","-","d","l">>, <<"w","e","b","d","l">>, <<"w","e","b"," ","d","l">>, <<"a","m","z","n">>, <<"n","f"," ">>, <<"a","t","v","p">>,
                 <<"b","l","u","-","r","a","y">>, <<"b","l","u","r","a","y">>, <<"u","h","d"," ","b","l","u">>, <<"b","d","r","i","p">>, <<"h","d","t","v">>,
                 <<"p","d","t","v">>, <<"r","e","m","u","x">> } : Contains(Lower(name), tok)

C7_KnownStandard(v) ==
    Strip(StrOf(v)) \in { <<"1">>, <<"2">>, <<"3">>, <<"5">>, <<"6">>, <<"7">> }

C7_KnownSource(v) ==
    Strip(StrOf(v)) \in { <<"8">>, <<"1">>, <<"4">>, <<"5">>, <<"3">>, <<"6">> }

\* C7 as stated: for any value of `standard` and `source`, every entry whose
\* name holds a resolution token has a non-empty res, and every entry whose
\* name holds a source token has a non-empty type.
C7_NeverEmptyForAnyIds ==
    SearchAnswered =>
        \A k \in 1..Len(ret.val) :
            /\ C7_HasResToken(ret.val[k].name) => ret.val[k].res # ""
            /\ C7_HasTypeToken(ret.val[k].name) => ret.val[k].type # ""

\* C7 amended: for every entry whose torrent has `standard` absent, null or
\* one of the known ids 1, 2, 3, 5, 6, 7, res is non-empty whenever the name
\* holds a resolution token; for every entry whose torrent has `source`
\* absent, null or one of the known ids 8, 1, 4, 5, 3, 6, type is non-empty
\* whenever the name holds a source token.
C7_NeverEmptyForAbsentOrKnownIds ==
    SearchAnswered =>
        LET q == SelectSeq(TorrentsOf(call.post.body.data), C6_NamedOrTitled)
        IN  \A k \in 1..Len(ret.val) :
            /\ ( (q[k].standard = PyNone \/ C7_KnownStandard(q[k].standard))
                 /\ C7_HasResToken(ret.val[k].name) ) => ret.val[k].res # ""
            /\ ( (q[k].source = PyNone \/ C7_KnownSource(q[k].source))
                 /\ C7_HasTypeToken(ret.val[k].name) ) => ret.val[k].type # ""

\* C7 witness: an upper-case name with no standard and no source in the
\* response got its res and type from the name
C7_Witness ==
    /\ SearchAnswered
    /\ Len(ret.val) = 1
    /\ ret.val[1].name = NameUhd
    /\ TorrentsOf(call.post.body.data)[1].standard = PyNone
    /\ TorrentsOf(call.post.body.data)[1].source = PyNone
    /\ ret.val[1].res = "2160p"
    /\ ret.val[1].type = "BluRay"


-----------------------------------------------------------------------------
(* Codec mapping: MTEAM.get_video_codec_id / get_audio_codec_id with the   *)
(* text fallback, AUDIENCES.get_codec_sel / get_audiocodec_sel             *)

\* one track of meta['mediainfo']['media']['track']: its '@type', its
\* 'Format' and its 'Format_Profile' ('' when the key is absent)
Track(type, Format, Format_Profile) ==
    [type |-> type, Format |-> Format, Format_Profile |-> Format_Profile]

\* longest track list of a report
MaxTracks == 2

\* meta.get('mediainfo', {}): absent, or a report whose media.track is a
\* list of tracks or one track as a dict
MediaInfo(shape, track) == [shape |-> shape, track |-> track]

\* a file of {base_dir}/tmp/{uuid}/
File(exists, content) == [exists |-> exists, content |-> content]

NoFile == File(FALSE, <<>>)

TextAvcDts == <<"V","i","d","e","o",":"," ","M","P","E","G","-","4"," ","A","V","C">> \o <<"\n">> \o <<"A","u","d","i","o",":"," ","D","T","S","-","H","D"," ","M","A">> \o <<"\n">>

Files(bd_full, bd_summary, mi_full, mediainfo) ==
    [ BD_FULL_00 |-> bd_full, BD_SUMMARY_00 |-> bd_summary,
      MI_FULL_00 |-> mi_full, MEDIAINFO |-> mediainfo ]

FileSystems ==
    { Files(NoFile, NoFile, NoFile, NoFile),
      Files(NoFile, NoFile, NoFile, File(TRUE, TextAvcDts)),
      Files(NoFile, NoFile, File(TRUE, (<<"H","E","V","C">> \o <<"\n">> \o <<"E","-","A","C","3"," ","A","t","m","o","s">>)), File(TRUE, TextAvcDts)),
      Files(NoFile, File(TRUE, (<<"V","C","-","1"," ","V","i","d","e","o">> \o <<"\n">> \o <<"D","o","l","b","y"," ","T","r","u","e","H","D"," ","A","u","d","i","o">>)), NoFile, NoFile),
      Files(File(TRUE, TextAvcDts), File(TRUE, (<<"V","C","-","1"," ","V","i","d","e","o">> \o <<"\n">> \o <<"D","o","l","b","y"," ","T","r","u","e","H","D"," ","A","u","d","i","o">>)), NoFile, NoFile) }

\* the keys of meta the codec mapping reads: bdinfo is whether
\* meta.get('bdinfo') is not None
CodecMeta(mediainfo, bdinfo, is_disc) ==
    [mediainfo |-> mediainfo, bdinfo |-> bdinfo, is_disc |-> is_disc]

CodecMetas ==
    { CodecMeta(mi, b, d) : mi \in ({MediaInfo("absent", <<>>)} \cup { MediaInfo("list", ts) : ts \in SeqsUpTo((({ Track("Video", f, <<>>) : f \in {<<"H","E","V","C">>, <<"a","v","c">>, <<"V","P","9">>, <<"R","e","a","l","V","i","d","e","o">>} }) \cup ({ Track("Audio", <<"E","-","A","C","3">>, <<>>), Track("Audio", <<"E","-","A","C","3">>, <<"D","o","l","b","y"," ","A","t","m","o","s">>), Track("Audio", <<"e","-","a","c","3"," ","a","t","m","o","s">>, <<>>), Track("Audio", <<"A","C","3">>, <<>>), Track("Audio", <<"D","T","S","-","H","D"," ","M","A">>, <<>>), Track("Audio", <<"D","T","S">>, <<>>), Track("Audio", <<"D","T","S">>, <<"D","T","S",":","X">>), Track("Audio", <<"T","r","u","e","H","D"," ","A","t","m","o","s">>, <<>>), Track("Audio", <<"T","r","u","e","H","D">>, <<>>), Track("Audio", <<"A","t","m","o","s"," ","/"," ","T","r","u","e","H","D">>, <<>>), Track("Audio", <<"O","p","u","s">>, <<>>) }) \cup ({ Track("General", <<"M","a","t","r","o","s","k","a">>, <<>>), Track("Text", <<"U","T","F","-","8">>, <<>>) })), MaxTracks) } \cup { MediaInfo("dict", t) : t \in (({ Track("Video", f, <<>>) : f \in {<<"H","E","V","C">>, <<"a","v","c">>, <<"V","P","9">>, <<"R","e","a","l","V","i","d","e","o">>} }) \cup ({ Track("Audio", <<"E","-","A","C","3">>, <<>>), Track("Audio", <<"E","-","A","C","3">>, <<"D","o","l","b","y"," ","A","t","m","o","s">>), Track("Audio", <<"e","-","a","c","3"," ","a","t","m","o","s">>, <<>>), Track("Audio", <<"A","C","3">>, <<>>), Track("Audio", <<"D","T","S","-","H","D"," ","M","A">>, <<>>), Track("Audio", <<"D","T","S">>, <<>>), Track("Audio", <<"D","T","S">>, <<"D","T","S",":","X">>), Track("Audio", <<"T","r","u","e","H","D"," ","A","t","m","o","s">>, <<>>), Track("Audio", <<"T","r","u","e","H","D">>, <<>>), Track("Audio", <<"A","t","m","o","s"," ","/"," ","T","r","u","e","H","D">>, <<>>), Track("Audio", <<"O","p","u","s">>, <<>>) }) \cup ({ Track("General", <<"M","a","t","r","o","s","k","a">>, <<>>), Track("Text", <<"U","T","F","-","8">>, <<>>) })) }),
        b \in BOOLEAN, d \in {"", "BDMV"} } \ 
    { CodecMeta(mi, TRUE, "") : mi \in ({MediaInfo("absent", <<>>)} \cup { MediaInfo("list", ts) : ts \in SeqsUpTo((({ Track("Video", f, <<>>) : f \in {<<"H","E","V","C">>, <<"a","v","c">>, <<"V","P","9">>, <<"R","e","a","l","V","i","d","e","o">>} }) \cup ({ Track("Audio", <<"E","-","A","C","3">>, <<>>), Track("Audio", <<"E","-","A","C","3">>, <<"D","o","l","b","y"," ","A","t","m","o","s">>), Track("Audio", <<"e","-","a","c","3"," ","a","t","m","o","s">>, <<>>), Track("Audio", <<"A","C","3">>, <<>>), Track("Audio", <<"D","T","S","-","H","D"," ","M","A">>, <<>>), Track("Audio", <<"D","T","S">>, <<>>), Track("Audio", <<"D","T","S">>, <<"D","T","S",":","X">>), Track("Audio", <<"T","r","u","e","H","D"," ","A","t","m","o","s">>, <<>>), Track("Audio", <<"T","r","u","e","H","D">>, <<>>), Track("Audio", <<"A","t","m","o","s"," ","/"," ","T","r","u","e","H","D">>, <<>>), Track("Audio", <<"O","p","u","s">>, <<>>) }) \cup ({ Track("General", <<"M","a","t","r","o","s","k","a">>, <<>>), Track("Text", <<"U","T","F","-","8">>, <<>>) })), MaxTracks) } \cup { MediaInfo("dict", t) : t \in (({ Track("Video", f, <<>>) : f \in {<<"H","E","V","C">>, <<"a","v","c">>, <<"V","P","9">>, <<"R","e","a","l","V","i","d","e","o">>} }) \cup ({ Track("Audio", <<"E","-","A","C","3">>, <<>>), Track("Audio", <<"E","-","A","C","3">>, <<"D","o","l","b","y"," ","A","t","m","o","s">>), Track("Audio", <<"e","-","a","c","3"," ","a","t","m","o","s">>, <<>>), Track("Audio", <<"A","C","3">>, <<>>), Track("Audio", <<"D","T","S","-","H","D"," ","M","A">>, <<>>), Track("Audio", <<"D","T","S">>, <<>>), Track("Audio", <<"D","T","S">>, <<"D","T","S",":","X">>), Track("Audio", <<"T","r","u","e","H","D"," ","A","t","m","o","s">>, <<>>), Track("Audio", <<"T","r","u","e","H","D">>, <<>>), Track("Audio", <<"A","t","m","o","s"," ","/"," ","T","r","u","e","H","D">>, <<>>), Track("Audio", <<"O","p","u","s">>, <<>>) }) \cup ({ Track("General", <<"M","a","t","r","o","s","k","a">>, <<>>), Track("Text", <<"U","T","F","-","8">>, <<>>) })) }) }

RECURSIVE CrLf(_)
\* content.replace('\n', '\r\n')
CrLf(s) ==
    IF s = <<>> THEN <<>>
    ELSE (IF Head(s) = "\n" THEN <<"\r", "\n">> ELSE <<Head(s)>>) \o CrLf(Tail(s))

\* [t for t in tracks if t.get('@type') == type]
TracksOfType(tracks, type) == SelectSeq(tracks, LAMBDA t : t.type = type)

IntOrNone(i) == IF i = 0 THEN Returned("none", PyNone) ELSE Returned("int", PyInt(i))

\* the pair (video_id, audio_id); 0 stands for None
_parse_codec_ids_from_mediainfo_text(text) ==
    LET t == Upper(text)
        has(x) == Contains(t, x)
        video_id ==
            IF has(<<"H","E","V","C">>) \/ has(<<"H",".","2","6","5">>) \/ has(<<"X","2","6","5">>) \/ has(<<"H","2","6","5">>) THEN 16
            ELSE IF has(<<"A","V","C">>) \/ has(<<"H",".","2","6","4">>) \/ has(<<"X","2","6","4">>) \/ has(<<"H","2","6","4">>)
                    \/ has(<<"M","P","E","G","-","4"," ","A","V","C">>) \/ has(<<"M","P","E","G","4"," ","A","V","C">>) THEN 1
            ELSE IF has(<<"V","C","-","1">>) \/ has(<<"V","C","1">>) THEN 2
            ELSE IF has(<<"M","P","E","G","-","2">>) \/ has(<<"M","P","E","G","2">>) THEN 4
            ELSE IF has(<<"A","V","1">>) THEN 19
            ELSE IF has(<<"V","P","9">>) \/ has(<<"V","P","8">>) THEN 21
            ELSE IF has(<<"X","V","I","D">>) THEN 3
            ELSE 0
        audio_id ==
            IF has(<<"E","-","A","C","3">>) /\ (has(<<"A","T","M","O","S">>) \/ has(<<"A","T","O","M","S">>)) THEN 13
            ELSE IF has(<<"E","-","A","C","3">>) \/ has(<<"D","D","P">>) \/ has(<<"D","O","L","B","Y"," ","D","I","G","I","T","A","L"," ","P","L","U","S">>) THEN 12
            ELSE IF has(<<"T","R","U","E","H","D">>) /\ has(<<"A","T","M","O","S">>) THEN 10
            ELSE IF has(<<"T","R","U","E","H","D">>) \/ has(<<"T","R","U","E"," ","H","D">>) THEN 9
            ELSE IF has(<<"D","T","S","-","H","D">>) \/ has(<<"D","T","S","H","D">>) \/ has(<<"D","T","S","-","H","D"," ","M","A">>) THEN 11
            ELSE IF has(<<"D","T","S",":","X">>) \/ has(<<"D","T","S","X">>) THEN 3
            ELSE IF has(<<"D","T","S">>) THEN 3
            ELSE IF has(<<"L","P","C","M">>) \/ has(<<"P","C","M">>) THEN 14
            ELSE IF has(<<"F","L","A","C">>) THEN 1
            ELSE IF has(<<"A","C","3">>) \/ has(<<"D","O","L","B","Y"," ","D","I","G","I","T","A","L">>) \/ has(<<"D","D"," ">>) THEN 8
            ELSE IF has(<<"A","A","C">>) THEN 6
            ELSE IF has(<<"M","P","3">>) \/ has(<<"M","P","2">>) THEN 4
            ELSE IF has(<<"O","G","G">>) \/ has(<<"V","O","R","B","I","S">>) THEN 5
            ELSE 0
    IN  IF text = <<>> THEN [video |-> 0, audio |-> 0]
        ELSE [video |-> video_id, audio |-> audio_id]

\* the track list, a single dict normalised to a list of one
_mediainfo_tracks_list(mi) ==
    CASE mi.shape = "absent" -> <<>>
      [] mi.shape = "dict"   -> <<mi.track>>
      [] OTHER               -> mi.track

\* the text read and the file opened for it
get_mediainfo_text(meta, files) ==
    LET mi_path ==
            IF meta.bdinfo \/ meta.is_disc = "BDMV"
            THEN (IF files.BD_FULL_00.exists THEN "BD_FULL_00" ELSE "BD_SUMMARY_00")
            ELSE (IF files.MI_FULL_00.exists THEN "MI_FULL_00" ELSE "MEDIAINFO")
    IN  IF files[mi_path].exists
        THEN [text |-> CrLf(files[mi_path].content),
              sent |-> <<Req("OPEN", mi_path, <<>>, "")>>]
        ELSE [text |-> <<>>, sent |-> <<>>]

get_video_codec_id(meta, files) ==
    LET tracks == _mediainfo_tracks_list(meta.mediainfo)
        video_tracks == TracksOfType(tracks, "Video")
        codec == Upper(video_tracks[1].Format)
        has(x) == Contains(codec, x)
        mediainfo_text == get_mediainfo_text(meta, files)
    IN  IF video_tracks # <<>>
        THEN [ret |-> IntOrNone(
                  IF has(<<"H","E","V","C">>) \/ has(<<"H",".","2","6","5">>) \/ has(<<"X","2","6","5">>) THEN 16
                  ELSE IF has(<<"A","V","C">>) \/ has(<<"H",".","2","6","4">>) \/ has(<<"X","2","6","4">>) THEN 1
                  ELSE IF has(<<"V","C","-","1">>) THEN 2
                  ELSE IF has(<<"M","P","E","G","-","2">>) \/ has(<<"M","P","E","G","2">>) THEN 4
                  ELSE IF has(<<"X","V","I","D">>) THEN 3
                  ELSE IF has(<<"A","V","1">>) THEN 19
                  ELSE IF has(<<"V","P","8">>) \/ has(<<"V","P","9">>) THEN 21
                  ELSE IF has(<<"A","V","S">>) THEN 22
                  ELSE 0),
              sent |-> <<>>]
        ELSE [ret |-> IntOrNone(
                  _parse_codec_ids_from_mediainfo_text(mediainfo_text.text).video),
              sent |-> mediainfo_text.sent]

\* get_audio_codec_id with the generic markers tested before the specific
AudioCodecGenericFirst(meta, files) ==
    LET tracks == _mediainfo_tracks_list(meta.mediainfo)
        audio_tracks == TracksOfType(tracks, "Audio")
        codec == Upper(audio_tracks[1].Format)
        has(x) == Contains(codec, x)
        mediainfo_text == get_mediainfo_text(meta, files)
    IN  IF audio_tracks # <<>>
        THEN [ret |-> IntOrNone(
                  IF has(<<"A","C","3">>) \/ has(<<"D","D">>) THEN 8
                  ELSE IF has(<<"D","T","S">>) THEN 3
                  ELSE IF has(<<"T","R","U","E","H","D">>) THEN 9
                  ELSE IF has(<<"A","A","C">>) THEN 6
                  ELSE 0),
              sent |-> <<>>]
        ELSE [ret |-> IntOrNone(
                  _parse_codec_ids_from_mediainfo_text(mediainfo_text.text).audio),
              sent |-> mediainfo_text.sent]

get_audio_codec_id(meta, files) ==
    LET tracks == _mediainfo_tracks_list(meta.mediainfo)
        audio_tracks == TracksOfType(tracks, "Audio")
        codec == Upper(audio_tracks[1].Format)
        format_profile == Upper(audio_tracks[1].Format_Profile)
        has(x) == Contains(codec, x)
        mediainfo_text == get_mediainfo_text(meta, files)
    IN  IF audio_tracks # <<>>
        THEN [ret |-> IntOrNone(
                  IF has(<<"E","-","A","C","3">>) /\ (Contains(format_profile, <<"A","T","M","O","S">>) \/ has(<<"A","T","M","O","S">>))
                  THEN 13
                  ELSE IF has(<<"E","-","A","C","3">>) \/ has(<<"D","D","P">>) THEN 12
                  ELSE IF Contains(format_profile, <<"A","T","M","O","S">>) \/ has(<<"T","R","U","E","H","D"," ","A","T","M","O","S">>) THEN 10
                  ELSE IF has(<<"T","R","U","E","H","D">>) THEN 9
                  ELSE IF has(<<"D","T","S","-","H","D">>) \/ has(<<"D","T","S","H","D">>) \/ has(<<"D","T","S","-","H","D"," ","M","A">>) THEN 11
                  ELSE IF Contains(format_profile, <<"D","T","S",":","X">>)
                          \/ Contains(format_profile, <<"D","T","S","X">>) THEN 3
                  ELSE IF has(<<"D","T","S">>) THEN 3
                  ELSE IF has(<<"L","P","C","M">>) \/ has(<<"P","C","M">>) THEN 14
                  ELSE IF has(<<"W","A","V">>) THEN 15
                  ELSE IF has(<<"F","L","A","C">>) THEN 1
                  ELSE IF has(<<"A","P","E">>) THEN 2
                  ELSE IF has(<<"M","P","2">>) \/ has(<<"M","P","3">>) THEN 4
                  ELSE IF has(<<"O","G","G">>) \/ has(<<"V","O","R","B","I","S">>) THEN 5
                  ELSE IF has(<<"A","C","3">>) \/ has(<<"D","D">>) \/ has(<<"D","O","L","B","Y"," ","D","I","G","I","T","A","L">>) THEN 8
                  ELSE IF has(<<"A","A","C">>) THEN 6
                  ELSE 0),
              sent |-> <<>>]
        ELSE [ret |-> IntOrNone(
                  _parse_codec_ids_from_mediainfo_text(mediainfo_text.text).audio),
              sent |-> mediainfo_text.sent]

\* AUDIENCES reads media.get('track', []) as it is: iterating a dict yields
\* its keys, and t.get on a key raises AttributeError
get_codec_sel(meta) ==
    LET mi == meta.mediainfo
        video_tracks == IF mi.shape = "absent" THEN <<>>
                        ELSE TracksOfType(mi.track, "Video")
        codec == Upper(video_tracks[1].Format)
        has(x) == Contains(codec, x)
    IN  IF mi.shape = "dict" THEN Raised("AttributeError", 0)
        ELSE IF video_tracks = <<>> THEN Returned("str", PyStr(<<"0">>))
        ELSE Returned("str", PyStr(
                  IF has(<<"H","E","V","C">>) \/ has(<<"H",".","2","6","5">>) \/ has(<<"X","2","6","5">>) THEN <<"6">>
                  ELSE IF has(<<"A","V","C">>) \/ has(<<"H",".","2","6","4">>) \/ has(<<"X","2","6","4">>) THEN <<"1">>
                  ELSE IF has(<<"V","C","-","1">>) THEN <<"2">>
                  ELSE IF has(<<"M","P","E","G","-","2">>) \/ has(<<"M","P","E","G","2">>) THEN <<"4">>
                  ELSE IF has(<<"A","V","1">>) THEN <<"7">>
                  ELSE <<"5">>))

get_audiocodec_sel(meta) ==
    LET mi == meta.mediainfo
        audio_tracks == IF mi.shape = "absent" THEN <<>>
                        ELSE TracksOfType(mi.track, "Audio")
        codec == Upper(audio_tracks[1].Format)
        format_profile == Upper(audio_tracks[1].Format_Profile)
        has(x) == Contains(codec, x)
    IN  IF mi.shape = "dict" THEN Raised("AttributeError", 0)
        ELSE IF audio_tracks = <<>> THEN Returned("str", PyStr(<<"0">>))
        ELSE Returned("str", PyStr(
                  IF Contains(format_profile, <<"D","T","S",":","X">>)
                     \/ Contains(format_profile, <<"D","T","S","X">>) THEN <<"2","5">>
                  ELSE IF Contains(format_profile, <<"A","T","M","O","S">>) \/ has(<<"T","R","U","E","H","D"," ","A","T","M","O","S">>)
                  THEN <<"2","6">>
                  ELSE IF has(<<"D","T","S","-","H","D">>) \/ has(<<"D","T","S","H","D">>) THEN <<"1","9">>
                  ELSE IF has(<<"T","R","U","E","H","D">>) THEN <<"2","0">>
                  ELSE IF has(<<"L","P","C","M">>) \/ has(<<"P","C","M">>) THEN <<"2","1">>
                  ELSE IF has(<<"D","T","S">>) THEN <<"3">>
                  ELSE IF has(<<"A","C","3">>) \/ has(<<"D","D">>) \/ has(<<"D","O","L","B","Y"," ","D","I","G","I","T","A","L">>) THEN <<"1","8">>
                  ELSE IF has(<<"O","P","U","S">>) THEN <<"2","7">>
                  ELSE IF has(<<"A","A","C">>) THEN <<"6">>
                  ELSE IF has(<<"F","L","A","C">>) THEN <<"1">>
                  ELSE IF has(<<"A","P","E">>) THEN <<"2">>
                  ELSE IF has(<<"W","A","V">>) THEN <<"2","2">>
                  ELSE IF has(<<"M","P","3">>) THEN <<"2","3">>
                  ELSE IF has(<<"M","4","A">>) THEN <<"2","4">>
                  ELSE <<"7">>))

\* most lines of a text handed to _parse_codec_ids_from_mediainfo_text
MaxLines == 2

RECURSIVE JoinLines(_)
\* the lines, each ended by a line feed
JoinLines(ls) ==
    IF ls = <<>> THEN <<>> ELSE Head(ls) \o <<"\n">> \o JoinLines(Tail(ls))

-----------------------------------------------------------------------------
(* Resolution mapping: MTEAM.get_standard_id, AUDIENCES.get_standard_sel   *)

\* a key that meta does not hold
Absent == [t |-> "absent", n |-> 0, s |-> <<>>]

\* meta.get(key, default)
Get(v, default) == IF v.t = "absent" THEN default ELSE v

\* values of meta['resolution']
ResolutionValues ==
    { PyStr(p \o tok \o s) : p \in {<<>>, <<"U","H","D"," ">>}, tok \in ({ <<"8","K">>, <<"8","k">>, <<"4","K">>, <<"4","k">>, <<"2","1","6","0","p">>, <<"2","1","6","0","i">>, <<"1","0","8","0","p">>, <<"1","0","8","0","i">>, <<"7","2","0","p">>, <<"7","2","0","i">>, <<"4","8","0","p">>, <<"4","8","0","i">>, <<"5","7","6","p">>, <<"5","7","6","i">>, <<"1","0","8","0","P">>, <<"2","1","6","0","P">>, <<"4","3","2","0","p">>, <<"8","6","4","0","p">>, <<"O","T","H","E","R">>, <<"7","6","8","0","x","4","3","2","0">>, <<"1","0","8","0">>, <<"S","D">>, <<"5","4","0","p">>, <<>> }),
                             s \in {<<>>, <<" ","H","D","R">>} }
    \cup {PyNone, Absent, PyInt(1080)}

ResolutionMeta(resolution) == [resolution |-> resolution]

\* get_standard_id without .lower()
StandardIdCaseSensitive(meta) ==
    LET resolution == StrOf(Get(meta.resolution, PyStr(<<>>)))
        has(x) == Contains(resolution, x)
    IN  IntOrNone(
            IF has(<<"8","k">>) \/ has(<<"7","6","8","0">>) THEN 7
            ELSE IF has(<<"4","k">>) \/ has(<<"2","1","6","0","p">>) \/ has(<<"2","1","6","0","i">>) THEN 6
            ELSE IF has(<<"1","0","8","0","p">>) THEN 1
            ELSE IF has(<<"1","0","8","0","i">>) THEN 2
            ELSE IF has(<<"7","2","0","p">>) \/ has(<<"7","2","0","i">>) THEN 3
            ELSE IF has(<<"4","8","0","p">>) \/ has(<<"4","8","0","i">>) \/ has(<<"5","7","6","p">>) \/ has(<<"5","7","6","i">>) THEN 5
            ELSE 0)

get_standard_id(meta) ==
    LET resolution == Lower(StrOf(Get(meta.resolution, PyStr(<<>>))))
        has(x) == Contains(resolution, x)
    IN  IntOrNone(
            IF has(<<"8","k">>) \/ has(<<"7","6","8","0">>) THEN 7
            ELSE IF has(<<"4","k">>) \/ has(<<"2","1","6","0","p">>) \/ has(<<"2","1","6","0","i">>) THEN 6
            ELSE IF has(<<"1","0","8","0","p">>) THEN 1
            ELSE IF has(<<"1","0","8","0","i">>) THEN 2
            ELSE IF has(<<"7","2","0","p">>) \/ has(<<"7","2","0","i">>) THEN 3
            ELSE IF has(<<"4","8","0","p">>) \/ has(<<"4","8","0","i">>) \/ has(<<"5","7","6","p">>) \/ has(<<"5","7","6","i">>) THEN 5
            ELSE 0)

get_standard_sel(meta) ==
    LET resolution == Lower(StrOf(Get(meta.resolution, PyStr(<<>>))))
        has(x) == Contains(resolution, x)
    IN  Returned("str", PyStr(
            IF has(<<"8","k">>) \/ has(<<"7","6","8","0">>) THEN <<"1","0">>
            ELSE IF has(<<"4","k">>) \/ has(<<"2","1","6","0","p">>) \/ has(<<"2","1","6","0","i">>) THEN <<"5">>
            ELSE IF has(<<"1","0","8","0","p">>) THEN <<"1">>
            ELSE IF has(<<"1","0","8","0","i">>) THEN <<"2">>
            ELSE IF has(<<"7","2","0","p">>) \/ has(<<"7","2","0","i">>) THEN <<"3">>
            ELSE IF has(<<"4","8","0","p">>) \/ has(<<"4","8","0","i">>) \/ has(<<"5","7","6","p">>) \/ has(<<"5","7","6","i">>)
            THEN <<"4">>
            ELSE <<"1","1">>))

-----------------------------------------------------------------------------
(* The field-mapping operations as actions                                 *)

DoVideoCodecId ==
    /\ call.op = "none"
    /\ \E meta \in CodecMetas, files \in FileSystems :
        LET out == get_video_codec_id(meta, files)
        IN  /\ call' = [op |-> "MTEAM.get_video_codec_id", meta |-> meta, files |-> files]
            /\ ret' = out.ret
            /\ sent' = out.sent
    /\ UNCHANGED <<self, disk, tracker_status>>

DoAudioCodecId ==
    /\ call.op = "none"
    /\ \E meta \in CodecMetas, files \in FileSystems :
        LET out == get_audio_codec_id(meta, files)
        IN  /\ call' = [op |-> "MTEAM.get_audio_codec_id", meta |-> meta, files |-> files]
            /\ ret' = out.ret
            /\ sent' = out.sent
    /\ UNCHANGED <<self, disk, tracker_status>>

DoCodecSel ==
    /\ call.op = "none"
    /\ \E meta \in CodecMetas :
        /\ call' = [op |-> "AUDIENCES.get_codec_sel", meta |-> meta]
        /\ ret' = get_codec_sel(meta)
        /\ sent' = <<>>
    /\ UNCHANGED <<self, disk, tracker_status>>

DoAudiocodecSel ==
    /\ call.op = "none"
    /\ \E meta \in CodecMetas :
        /\ call' = [op |-> "AUDIENCES.get_audiocodec_sel", meta |-> meta]
        /\ ret' = get_audiocodec_sel(meta)
        /\ sent' = <<>>
    /\ UNCHANGED <<self, disk, tracker_status>>

DoParseText ==
    /\ call.op = "none"
    /\ \E text \in ({ JoinLines(ls) : ls \in SeqsUpTo(({ <<"C","o","d","e","c",":"," ","E","-","A","C","3">>, <<"D","o","l","b","y"," ","A","t","m","o","s">>, <<"E","-","A","C","3"," ","A","t","o","m","s">>, <<"D","T","S","-","H","D"," ","M","A"," ","5",".","1">>, <<"d","t","s">>, <<"T","r","u","e","H","D"," ","A","t","m","o","s">>, <<"D","o","l","b","y"," ","T","r","u","e","H","D">>, <<"A","C","3">>, <<"D","D","P"," ","5",".","1">>, <<"D","o","l","b","y"," ","D","i","g","i","t","a","l"," ","P","l","u","s">>, <<"H","E","V","C">>, <<"A","A","C">> }), MaxLines) }) :
        /\ call' = [op |-> "_parse_codec_ids_from_mediainfo_text", text |-> text]
        /\ ret' = Returned("tuple", _parse_codec_ids_from_mediainfo_text(text))
        /\ sent' = <<>>
    /\ UNCHANGED <<self, disk, tracker_status>>

DoStandardId ==
    /\ call.op = "none"
    /\ \E resolution \in ResolutionValues :
        /\ call' = [op |-> "MTEAM.get_standard_id", meta |-> ResolutionMeta(resolution)]
        /\ ret' = get_standard_id(ResolutionMeta(resolution))
        /\ sent' = <<>>
    /\ UNCHANGED <<self, disk, tracker_status>>

DoStandardSel ==
    /\ call.op = "none"
    /\ \E resolution \in ResolutionValues :
        /\ call' = [op |-> "AUDIENCES.get_standard_sel", meta |-> ResolutionMeta(resolution)]
        /\ ret' = get_standard_sel(ResolutionMeta(resolution))
        /\ sent' = <<>>
    /\ UNCHANGED <<self, disk, tracker_status>>

NextMapping ==
    \/ DoVideoCodecId \/ DoAudioCodecId \/ DoCodecSel \/ DoAudiocodecSel
    \/ DoParseText \/ DoStandardId \/ DoStandardSel \/ Done

SpecMapping == Init /\ [][NextMapping]_vars

-----------------------------------------------------------------------------
(* Claims on the field mapping                                             *)

\* the first Audio track of the report handed to the last call
C8_FirstAudio ==
    TracksOfType(_mediainfo_tracks_list(call.meta.mediainfo), "Audio")[1]

C8_TrackCase ==
    /\ call.op = "MTEAM.get_audio_codec_id"
    /\ TracksOfType(_mediainfo_tracks_list(call.meta.mediainfo), "Audio") # <<>>

C9_CodecOps ==
    { "MTEAM.get_video_codec_id", "MTEAM.get_audio_codec_id",
      "AUDIENCES.get_codec_sel", "AUDIENCES.get_audiocodec_sel" }

\* the track type an operation maps
C9_Kind(op) ==
    IF op \in {"MTEAM.get_video_codec_id", "AUDIENCES.get_codec_sel"}
    THEN "Video" ELSE "Audio"

\* the tracks of a report, in order
C9_Tracks(mi) ==
    CASE mi.shape = "absent" -> <<>>
      [] mi.shape = "dict"   -> <<mi.track>>
      [] OTHER               -> mi.track

\* the outcome of an operation on a meta whose report is the one track
\* alone, with no text file on disk
C9_Alone(op, track) ==
    LET meta == CodecMeta(MediaInfo("list", <<track>>), FALSE, "")
        files == Files(NoFile, NoFile, NoFile, NoFile)
    IN  CASE op = "MTEAM.get_video_codec_id" -> get_video_codec_id(meta, files).ret
          [] op = "MTEAM.get_audio_codec_id" -> get_audio_codec_id(meta, files).ret
          [] op = "AUDIENCES.get_codec_sel"  -> get_codec_sel(meta)
          [] OTHER                           -> get_audiocodec_sel(meta)

C9_HasTrack ==
    /\ call.op \in C9_CodecOps
    /\ TracksOfType(C9_Tracks(call.meta.mediainfo), C9_Kind(call.op)) # <<>>

\* C9: when the report holds at least one Video (resp. Audio) track,
\* MTEAM.get_video_codec_id and AUDIENCES.get_codec_sel (resp.
\* MTEAM.get_audio_codec_id and AUDIENCES.get_audiocodec_sel) return a value
\* determined by the first such track only: the same value as for a report
\* made of that track alone and no text file, and no text file is opened.
C9_FirstTrackDetermines ==
    C9_HasTrack =>
        /\ ret.kind = "return"
        /\ ret = C9_Alone(call.op,
                    TracksOfType(C9_Tracks(call.meta.mediainfo), C9_Kind(call.op))[1])
        /\ sent = <<>>

\* C9 restricted to what the code does: the same, except for the AUDIENCES
\* operations on a report whose track is a single dict
C9_FirstTrackDeterminesUnlessDict ==
    (C9_HasTrack /\ ~(call.op \in {"AUDIENCES.get_codec_sel", "AUDIENCES.get_audiocodec_sel"}
                        /\ call.meta.mediainfo.shape = "dict")) =>
        /\ ret.kind = "return"
        /\ ret = C9_Alone(call.op,
                    TracksOfType(C9_Tracks(call.meta.mediainfo), C9_Kind(call.op))[1])
        /\ sent = <<>>

\* the documented classes in the order of the branches: the strings of the
\* class (lower case), the MTEAM id and the AUDIENCES id
C10_Classes ==
    << [strings |-> {<<"8","k">>}, id |-> 7, sel |-> <<"1","0">>],
       [strings |-> {<<"4","k">>, <<"2","1","6","0","p">>, <<"2","1","6","0","i">>}, id |-> 6, sel |-> <<"5">>],
       [strings |-> {<<"1","0","8","0","p">>}, id |-> 1, sel |-> <<"1">>],
       [strings |-> {<<"1","0","8","0","i">>}, id |-> 2, sel |-> <<"2">>],
       [strings |-> {<<"7","2","0","p">>, <<"7","2","0","i">>}, id |-> 3, sel |-> <<"3">>],
       [strings |-> {<<"4","8","0","p">>, <<"4","8","0","i">>, <<"5","7","6","p">>, <<"5","7","6","i">>}, id |-> 5, sel |-> <<"4">>] >>

\* the tokens searched for: those of the class, and 7680 for 8K
C10_TokensOf(k) ==
    IF k = 1 THEN C10_Classes[k].strings \cup {<<"7","6","8","0">>} ELSE C10_Classes[k].strings

C10_StandardCase == call.op \in {"MTEAM.get_standard_id", "AUDIENCES.get_standard_sel"}

C10_Resolution == StrOf(Get(call.meta.resolution, PyStr(<<>>)))

C10_Expect(k) ==
    IF call.op = "MTEAM.get_standard_id"
    THEN ret = Returned("int", PyInt(C10_Classes[k].id))
    ELSE ret = Returned("str", PyStr(C10_Classes[k].sel))

C10_ExpectDefault ==
    IF call.op = "MTEAM.get_standard_id"
    THEN ret = Returned("none", PyNone)
    ELSE ret = Returned("str", PyStr(<<"1","1">>))

\* C10: get_standard_id maps each supported resolution string (8K; 4K,
\* 2160p, 2160i; 1080p; 1080i; 720p, 720i; 480p, 480i, 576p, 576i) to 7, 6,
\* 1, 2, 3, 5 and every other input to None; get_standard_sel maps the same
\* classes to '10', '5', '1', '2', '3', '4' and every other input to '11'.
C10_TableElseDefault ==
    C10_StandardCase =>
        LET r == Lower(C10_Resolution)
            hit == {k \in 1..6 : r \in C10_Classes[k].strings}
        IN  IF hit # {} THEN \A k \in hit : C10_Expect(k) ELSE C10_ExpectDefault

\* C10, amended: the result is that of the first class, in the order 8K, 4K,
\* 1080p, 1080i, 720, SD, one of whose tokens (those listed, and 7680 for
\* 8K) occurs in the lower-cased resolution text; None / '11' exactly when
\* no token occurs.
C10_FirstTokenClassElseDefault ==
    C10_StandardCase =>
        LET r == Lower(C10_Resolution)
            hit == {k \in 1..6 : \E tok \in C10_TokensOf(k) : Contains(r, tok)}
        IN  IF hit # {}
            THEN C10_Expect(CHOOSE k \in hit : \A j \in hit : k <= j)
            ELSE C10_ExpectDefault

\* C10 witness: a resolution given by its width, mapped to the 8K id
C10_Witness ==
    /\ call.op = "MTEAM.get_standard_id"
    /\ call.meta.resolution = PyStr(<<"7","6","8","0","x","4","3","2","0">>)
    /\ ret = Returned("int", PyInt(7))

-----------------------------------------------------------------------------
(* The adapters as instances: credential check                             *)

Adapters ==
    { Adapter(t, <<>>, <<>>) : t \in CookieTrackers }
    \cup { Adapter("MTEAM", k, <<>>) : k \in ({<<>>, <<"k","3","y">>}) }
    \cup { Adapter("U2", <<>>, k) : k \in ({<<>>, <<"k","3","y">>}) }

\* a request on the wire: the method, the URL and the client that sends it
\*   "cookies": an AsyncClient carrying the parsed cookie file
\*   "session": MTEAM's self.session, carrying the x-api-key header
\*   "fresh":   an AsyncClient with neither cookies nor the x-api-key header
\*   "common":  the COMMON collaborator
Http(method, url, client) == [method |-> method, url |-> url, client |-> client]

\* the page url of validate_cookies
HomeOf(tracker) ==
    CASE tracker = "AUDIENCES" -> "https://audiences.me"
      [] tracker = "CHD"       -> "https://ptchdbits.co"
      [] tracker = "HDSKY"     -> "https://hdsky.me"
      [] tracker = "HHAN"      -> "https://hhanclub.net"
      [] OTHER                 -> "https://u2.dmhy.org"

LogoutAnchor == <<"<","a"," ","h","r","e","f","=","\"","#","\""," ","d","a","t","a","-","u","r","l","=","\"","l","o","g","o","u","t",".","p","h","p","\""," ","i","d","=","\"","l","o","g","o","u","t","-","c","o","n","f","i","r","m","\"",">">>

\* what `await client.get(...)` / `client.post(...)` of a cookie adapter
\* gives: an exception, or a response with its final url, status and text
HttpRaises(e) == [kind |-> "raise", exc |-> e, status |-> 0, url |-> <<>>, text |-> <<>>]

HttpResponse(status, url, text) ==
    [kind |-> "response", exc |-> "", status |-> status, url |-> url, text |-> text]

\* validate_cookies of a cookie adapter: the outcome and the requests issued
validate_cookies(tracker, cookie, get) ==
    IF cookie
    THEN LET rq == Http("GET", HomeOf(tracker), "cookies")
         IN  IF get.kind = "raise"
             THEN [ret |-> Raised(get.exc, 0), sent |-> <<rq>>]
             ELSE [ret |-> Returned("bool", PyBool(
                              Contains(get.text, LogoutAnchor)
                              \/ (tracker \in {"CHD", "U2"}
                                    /\ Contains(get.text, <<"l","o","g","o","u","t">>)))),
                   sent |-> <<rq>>]
    ELSE [ret |-> Returned("bool", PyBool(FALSE)), sent |-> <<>>]

\* validate_credentials of a cookie adapter
Cookie_validate_credentials(tracker, cookie, get) ==
    LET vcookie == validate_cookies(tracker, cookie, get)
    IN  IF vcookie.ret.kind = "raise" THEN vcookie
        ELSE IF vcookie.ret.val # PyBool(TRUE)
        THEN [ret |-> Returned("bool", PyBool(FALSE)), sent |-> vcookie.sent]
        ELSE [ret |-> Returned("bool", PyBool(TRUE)), sent |-> vcookie.sent]

\* MTEAM.validate_credentials asking again after a failure
ValidateAsksTwice(api_key, post) ==
    LET rq == Http("POST", "https://api.m-team.cc/api/member/profile", "session")
        r == _request(post)
    IN  IF api_key = <<>>
        THEN [ret |-> Returned("bool", PyBool(FALSE)), sent |-> <<>>]
        ELSE IF r.kind = "return"
        THEN [ret |-> Returned("bool", PyBool(TRUE)), sent |-> <<rq>>]
        ELSE IF r.exc = "MTEAMRequestError"
        THEN [ret |-> Returned("bool", PyBool(FALSE)), sent |-> <<rq, rq>>]
        ELSE [ret |-> r, sent |-> <<rq>>]

\* MTEAM.validate_credentials: the outcome and the requests issued
MTEAM_validate_credentials(api_key, post) ==
    LET rq == Http("POST", "https://api.m-team.cc/api/member/profile", "session")
        r == _request(post)
    IN  IF api_key = <<>>
        THEN [ret |-> Returned("bool", PyBool(FALSE)), sent |-> <<>>]
        ELSE IF r.kind = "return"
        THEN [ret |-> Returned("bool", PyBool(TRUE)), sent |-> <<rq>>]
        ELSE IF r.exc = "MTEAMRequestError"
        THEN [ret |-> Returned("bool", PyBool(FALSE)), sent |-> <<rq>>]
        ELSE [ret |-> r, sent |-> <<rq>>]

\* the state after construction of one adapter for one release
InitAdapter ==
    /\ call = NoCall
    /\ ret = NoResult
    /\ sent = <<>>
    /\ self \in Adapters
    /\ disk \in { Disk(c, FALSE, <<>>, "absent") :
                    c \in IF self.tracker = "MTEAM" THEN {FALSE} ELSE BOOLEAN }
    /\ tracker_status = (TrackerStatus(PyNone, PyNone, PyNone))

DoValidate ==
    /\ call.op = "none"
    /\ \/ /\ self.tracker \in CookieTrackers
          /\ \E get \in ({ HttpRaises(e) : e \in {"ConnectTimeout", "ConnectError"} } \cup { HttpResponse(st, <<>>, p) : st \in {200, 403, 503}, p \in ({(<<"<","t","d",">">> \o LogoutAnchor \o <<"<","/","t","d",">">>), (<<"<","a"," ","h","r","e","f","=","\"","l","o","g","o","u","t",".","p","h","p","\"",">">>), (<<"<","f","o","r","m"," ","a","c","t","i","o","n","=","\"","t","a","k","e","l","o","g","i","n",".","p","h","p","\"",">">>), <<>>}) }) :
              LET out == Cookie_validate_credentials(self.tracker, disk.cookie, get)
              IN  /\ call' = [op |-> "validate_credentials", answer |-> get]
                  /\ ret' = out.ret
                  /\ sent' = out.sent
       \/ /\ self.tracker = "MTEAM"
          /\ \E post \in ({ PostRaises("ReadTimeout"), PostRaises("ConnectError") } \cup { PostResponse(st, b) : st \in {200, 401, 503}, b \in {InvalidBody, NotDictBody} \cup { Body("dict", c, PyStr(<<>>), EmptyDictPayload) : c \in {PyInt(0), PyStr(<<"0">>), PyInt(1), PyBool(FALSE), PyNone} } }) :
              LET out == MTEAM_validate_credentials(self.api_key, post)
              IN  /\ call' = [op |-> "validate_credentials", answer |-> post]
                  /\ ret' = out.ret
                  /\ sent' = out.sent
    /\ UNCHANGED <<self, disk, tracker_status>>

\* C11: validate_credentials of every adapter returns False whenever its
\* check request is answered with a non-200 status or the response shows
\* the logged-out state (cookie adapters: the logout marker is absent from
\* the page; MTEAM: failure envelope, its code neither 0 nor "0"), and
\* returns True only for a 200 response showing the logged-in state.
C11_TrueOnlyFor200LoggedIn ==
    (call.op = "validate_credentials" /\ sent # <<>> /\ call.answer.kind = "response") =>
        LET logged_in ==
                IF self.tracker = "MTEAM"
                THEN /\ call.answer.body.json = "dict"
                     /\ call.answer.body.code \in {PyInt(0), PyStr(<<"0">>)}
                ELSE Contains(call.answer.text, LogoutAnchor)
            ok == call.answer.status = 200 /\ logged_in
        IN  /\ ret.kind = "return"
            /\ ret.val = PyBool(ok)

-----------------------------------------------------------------------------
(* get_info_from_torrent_id (CHD, HDSKY, HHAN, U2, MTEAM)                  *)

\* the tuple (imdb_id, tmdb_id, name, torrenthash, description)
InfoTuple(imdb, tmdb, name, torrenthash, description) ==
    <<imdb, tmdb, name, torrenthash, description>>

AllNone == InfoTuple(PyNone, PyNone, PyNone, PyNone, PyNone)

DetailsOf(tracker) ==
    CASE tracker = "CHD"   -> "https://ptchdbits.co/details.php"
      [] tracker = "HDSKY" -> "https://hdsky.me/details.php"
      [] tracker = "HHAN"  -> "https://hhanclub.net/details.php"
      [] OTHER             -> "https://u2.dmhy.org/details.php"

\* the name of the release inside the details page
ReleaseName == <<"S","o","m","e",".","R","e","l","e","a","s","e",".","2","0","2","0",".","1","0","8","0","p",".","B","l","u","R","a","y",".","x","2","6","4","-","G","R","P">>

\* ANIDB_AID_RE finds an aid: one of / ? & followed by aid= and a digit
HasAnidbAid(text) ==
    \E i \in 1..(Len(text) - 5) :
        /\ text[i] \in {"/", "?", "&"}
        /\ SubSeq(text, i + 1, i + 4) = <<"a","i","d","=">>
        /\ IsDigit(<<text[i + 5]>>)

\* get_info_from_torrent_id of a cookie adapter: the outcome and the
\* requests issued; ids_moe is whether the lookup at ids.moe answers
Cookie_get_info_from_torrent_id(adapter, cookie, get, ids_moe) ==
    LET rq == Http("GET", DetailsOf(adapter.tracker), "cookies")
        page_text == Lower(get.text)
        not_logged_in ==
            /\ adapter.tracker = "CHD"
            /\ Contains(page_text, <<"l","o","g","i","n">>)
            /\ Contains(page_text, <<"u","s","e","r","n","a","m","e">>) \/ Contains(page_text, <<"p","a","s","s","w","o","r","d">>)
        name == IF Contains(get.text, <<"<","h","1",">">>) THEN PyStr(ReleaseName) ELSE PyNone
        anidb == adapter.tracker = "U2" /\ HasAnidbAid(get.text)
        lookup == anidb /\ adapter.ids_moe_api_key # <<>>
        imdb == IF lookup /\ ids_moe THEN PyInt(133093) ELSE PyNone
    IN  IF ~cookie
        THEN [ret |-> Returned("tuple", AllNone), sent |-> <<>>]
        ELSE IF get.kind = "raise"
        THEN [ret |-> Returned("tuple", AllNone), sent |-> <<rq>>]
        ELSE IF get.status # 200 \/ not_logged_in
        THEN [ret |-> Returned("tuple", AllNone), sent |-> <<rq>>]
        ELSE [ret |-> Returned("tuple", InfoTuple(imdb, PyNone, name, PyNone, PyNone)),
              sent |-> IF lookup
                       THEN <<rq, Http("GET", "https://api.ids.moe/ids", "fresh")>>
                       ELSE <<rq>>]

\* MTEAM.get_info_from_torrent_id: the outcome and the requests issued
MTEAM_get_info_from_torrent_id(api_key, mteam_id, post) ==
    LET rq == Http("POST", "https://api.m-team.cc/api/torrent/detail", "session")
        r == _request(post)
    IN  IF api_key = <<>>
        THEN [ret |-> Returned("tuple", AllNone), sent |-> <<>>]
        ELSE IF mteam_id.t = "str" /\ ~IsDigit(Strip(mteam_id.s))
        THEN [ret |-> Raised("ValueError", 0), sent |-> <<>>]
        ELSE IF r.kind = "raise"
        THEN [ret |-> Returned("tuple", AllNone), sent |-> <<rq>>]
        ELSE IF r.val.shape \in {"dict", "dictbad"}
        THEN [ret |-> Returned("tuple",
                        InfoTuple(PyNone, PyNone, PyStr(<<>>), PyStr(<<>>), PyStr(<<>>))),
              sent |-> <<rq>>]
        ELSE [ret |-> Returned("tuple", AllNone), sent |-> <<rq>>]

DoGetInfo ==
    /\ call.op = "none"
    /\ \/ /\ self.tracker \in {"CHD", "HDSKY", "HHAN", "U2"}
          /\ \E get \in ({ HttpRaises(e) : e \in {"ReadTimeout", "ConnectError", "ValueError"} } \cup { HttpResponse(st, <<>>, p) : st \in {200, 404}, p \in {(<<"<","h","1",">">> \o ReleaseName \o <<"<","/","h","1",">">>), ((<<"<","h","1",">">> \o ReleaseName \o <<"<","/","h","1",">">>) \o <<"<","a"," ","h","r","e","f","=","\"","h","t","t","p","s",":","/","/","a","n","i","d","b",".","n","e","t","/","p","e","r","l","-","b","i","n","/","a","n","i","m","e","d","b",".","p","l","?","s","h","o","w","=","a","n","i","m","e","&","a","i","d","=","4","5","2","1","\"",">">>), (<<"<","f","o","r","m"," ","a","c","t","i","o","n","=","\"","t","a","k","e","l","o","g","i","n",".","p","h","p","\"",">","<","i","n","p","u","t"," ","n","a","m","e","=","\"","u","s","e","r","n","a","m","e","\"",">">>), <<>>} }), ids_moe \in BOOLEAN :
              LET out == Cookie_get_info_from_torrent_id(self, disk.cookie, get, ids_moe)
              IN  /\ call' = [op |-> "get_info_from_torrent_id", answer |-> get,
                              ids_moe |-> ids_moe]
                  /\ ret' = out.ret
                  /\ sent' = out.sent
       \/ /\ self.tracker = "MTEAM"
          /\ \E mteam_id \in ({PyInt(7), PyStr(<<"7">>), PyStr(<<"x","7">>)}), post \in ({ PostRaises("ReadTimeout"), PostRaises("ConnectError"), PostResponse(500, InvalidBody), PostResponse(200, NotDictBody) } \cup { PostResponse(200, Body("dict", c, PyStr(<<>>), d)) : c \in {PyInt(0), PyInt(1)}, d \in {NoPayload, EmptyDictPayload} }) :
              LET out == MTEAM_get_info_from_torrent_id(self.api_key, mteam_id, post)
              IN  /\ call' = [op |-> "get_info_from_torrent_id", answer |-> post,
                              mteam_id |-> mteam_id]
                  /\ ret' = out.ret
                  /\ sent' = out.sent
    /\ UNCHANGED <<self, disk, tracker_status>>

DoSearch ==
    /\ call.op = "none"
    /\ \E meta \in ({ Meta(i, ImdbText, "", "WEBDL", "1080p") : i \in {PyInt(0), PyInt(133093)} }) :
        \/ /\ self.tracker \in CookieTrackers
           /\ \E get \in ({ GetRaises("ConnectTimeout"), GetRaises("ConnectError"), GetResponse(404, <<>>), GetResponse(200, <<Row(TRUE, NameWeb)>>) }) :
               LET out == Cookie_search_existing(self.tracker, meta, disk.cookie, get)
               IN  /\ call' = [op |-> "search_existing", meta |-> meta, answer |-> get]
                   /\ ret' = out.ret
                   /\ sent' = out.sent
        \/ /\ self.tracker = "MTEAM"
           /\ \E post \in ({ PostRaises("ConnectTimeout"), PostResponse(404, InvalidBody), PostResponse(200, Body("dict", PyInt(0), PyStr(<<>>), Payload("list", <<>>, <<Torrent(PyStr(NameWeb), PyStr(<<>>), PyNone, PyNone, PyNone, PyNone)>>, <<>>))) }) :
               LET out == MTEAM_search_existing(meta, post)
               IN  /\ call' = [op |-> "search_existing", meta |-> meta, answer |-> post]
                   /\ ret' = out.ret
                   /\ sent' = out.sent
    /\ UNCHANGED <<self, disk, tracker_status>>

-----------------------------------------------------------------------------
(* upload: text of URLs, description cache, torrent re-download            *)

\* s.startswith(p)
StartsWith(s, p) == Len(s) >= Len(p) /\ SubSeq(s, 1, Len(p)) = p

RECURSIVE Replace(_, _, _)
\* s.replace(old, new), old not empty
Replace(s, old, new) ==
    IF Len(s) < Len(old) THEN s
    ELSE IF SubSeq(s, 1, Len(old)) = old
    THEN new \o Replace(SubSeq(s, Len(old) + 1, Len(s)), old, new)
    ELSE <<Head(s)>> \o Replace(Tail(s), old, new)

\* urlparse(url).query: what follows the first '?', up to a '#'
QueryOf(url) ==
    LET qs == {i \in 1..Len(url) : url[i] = "?"}
    IN  IF qs = {} THEN <<>>
        ELSE LET q == CHOOSE i \in qs : \A j \in qs : i <= j
                 hs == {i \in (q + 1)..Len(url) : url[i] = "#"}
                 e == IF hs = {} THEN Len(url)
                      ELSE (CHOOSE i \in hs : \A j \in hs : i <= j) - 1
             IN  SubSeq(url, q + 1, e)

\* re.search(r"(id=)(\d+)", query): group 2 of the first match, <<>> when
\* there is no match
IdMatch(query) ==
    LET at == {i \in 1..(Len(query) - 3) :
                 SubSeq(query, i, i + 2) = <<"i","d","=">> /\ IsDigit(<<query[i + 3]>>)}
    IN  IF at = {} THEN <<>>
        ELSE LET i == CHOOSE k \in at : \A j \in at : k <= j
                 ends == {e \in (i + 3)..Len(query) :
                            /\ IsDigit(SubSeq(query, i + 3, e))
                            /\ e = Len(query) \/ ~IsDigit(<<query[e + 1]>>)}
             IN  SubSeq(query, i + 3, CHOOSE e \in ends : TRUE)

\* the url the submission is posted to
UploadUrlOf(tracker) ==
    CASE tracker = "AUDIENCES" -> "https://audiences.me/takeupload.php"
      [] tracker = "HHAN"      -> "https://hhanclub.net/takeupload.php"
      [] tracker = "HDSKY"     -> "https://hdsky.me/offer.php"
      [] OTHER                 -> "https://api.m-team.cc/api/torrent/createOredit"

\* the prefix of the url an accepted upload is redirected to
DetailsPrefixOf(tracker) ==
    IF tracker = "AUDIENCES" THEN <<"h","t","t","p","s",":","/","/","a","u","d","i","e","n","c","e","s",".","m","e","/","d","e","t","a","i","l","s",".","p","h","p","?","i","d","=">>
    ELSE <<"h","t","t","p","s",":","/","/","h","h","a","n","c","l","u","b",".","n","e","t","/","d","e","t","a","i","l","s",".","p","h","p","?","i","d","=">>

\* the keys of meta that upload reads: debug, imdb_id, whether meta['ptgen']
\* is set, and base, the revision of the release's own description inputs
UploadMeta(debug, imdb_id, ptgen, base) ==
    [debug |-> debug, imdb_id |-> imdb_id, ptgen |-> ptgen, base |-> base]

\* the text edit_desc composes: the PTGen block when not blank, then the
\* release's own description; MTEAM ends the lines with CR LF
DescriptionOf(tracker, meta, ptgen) ==
    LET parts == (IF IntOf(PyOr(meta.imdb_id, PyInt(0))) # 0 /\ Strip(ptgen) # <<>>
                  THEN ptgen ELSE <<>>)
                 \o <<"n","o","t","e","s"," ","r">> \o <<meta.base, "\n">>
    IN  IF tracker = "MTEAM" THEN CrLf(parts) ELSE parts

\* upload writing the description on every call
DescriptionAlwaysWritten(tracker, d, meta, ptgen) ==
    LET lookup == IntOf(PyOr(meta.imdb_id, PyInt(0))) # 0
    IN  [ disk |-> Disk(d.cookie, TRUE, DescriptionOf(tracker, meta, ptgen), "created"),
          sent |-> IF lookup THEN <<Http("GET", "ptgen", "common")>> ELSE <<>>,
          ptgen |-> meta.ptgen \/ (lookup /\ Strip(ptgen) # <<>>) ]

\* upload going on without a description file
DescriptionNotWritten(tracker, d, meta, ptgen) ==
    [ disk |-> Disk(d.cookie, d.desc_exists, d.desc, "created"),
      sent |-> <<>>,
      ptgen |-> meta.ptgen ]

\* the head of upload: create_torrent_for_upload, then edit_desc when the
\* description file does not exist (edit_desc looks the release up at PTGen
\* when it has an IMDb id, and writes the file)
PrepareDescription(tracker, d, meta, ptgen) ==
    LET lookup == IntOf(PyOr(meta.imdb_id, PyInt(0))) # 0
    IN  IF d.desc_exists
        THEN [ disk |-> Disk(d.cookie, TRUE, d.desc, "created"),
               sent |-> <<>>,
               ptgen |-> meta.ptgen ]
        ELSE [ disk |-> Disk(d.cookie, TRUE, DescriptionOf(tracker, meta, ptgen), "created"),
               sent |-> IF lookup THEN <<Http("GET", "ptgen", "common")>> ELSE <<>>,
               ptgen |-> meta.ptgen \/ (lookup /\ Strip(ptgen) # <<>>) ]

\* download_new_torrent of AUDIENCES and HHAN: the outcome, the requests
\* issued and whether the torrent file was written
Cookie_download_new_torrent(tracker, get) ==
    LET rq == Http("GET", IF tracker = "AUDIENCES" THEN "https://audiences.me/download.php"
                          ELSE "https://hhanclub.net/download.php", "fresh")
    IN  IF get.kind = "raise"
        THEN [ret |-> Raised(get.exc, 0), sent |-> <<rq>>, written |-> FALSE]
        ELSE [ret |-> Returned("none", PyNone), sent |-> <<rq>>,
              written |-> get.status = 200]

\* MTEAM.download_new_torrent fetching with the session that carries the key
DownloadWithSession(api_key, token, get) ==
    LET rq == Http("POST", "https://api.m-team.cc/api/torrent/genDlToken", "session")
        r == _request(token)
    IN  IF api_key = <<>>
        THEN [ret |-> Returned("none", PyNone), sent |-> <<>>, written |-> FALSE]
        ELSE IF r.kind = "raise"
        THEN [ret |-> Returned("none", PyNone), sent |-> <<rq>>, written |-> FALSE]
        ELSE [ret |-> Returned("none", PyNone),
              sent |-> <<rq, Http("GET", "download_url", "session")>>,
              written |-> get.kind = "response" /\ get.status = 200]

\* MTEAM.download_new_torrent without its handlers around the GET and the
\* write of the file
DownloadLetsErrorsOut(api_key, token, get) ==
    LET rq == Http("POST", "https://api.m-team.cc/api/torrent/genDlToken", "session")
        r == _request(token)
    IN  IF api_key = <<>>
        THEN [ret |-> Returned("none", PyNone), sent |-> <<>>, written |-> FALSE]
        ELSE IF r.kind = "raise"
        THEN [ret |-> Returned("none", PyNone), sent |-> <<rq>>, written |-> FALSE]
        ELSE IF r.val.shape # "str" \/ r.val.s = <<>>
        THEN [ret |-> Returned("none", PyNone), sent |-> <<rq>>, written |-> FALSE]
        ELSE [ret |-> IF get.kind = "raise" THEN Raised(get.exc, 0)
                      ELSE Returned("none", PyNone),
              sent |-> <<rq, Http("GET", "download_url", "fresh")>>,
              written |-> get.kind = "response" /\ get.status = 200]

\* MTEAM.download_new_torrent: the outcome, the requests issued and whether
\* the torrent file was written; "download_url" is the text genDlToken
\* answered with
MTEAM_download_new_torrent(api_key, token, get) ==
    LET rq == Http("POST", "https://api.m-team.cc/api/torrent/genDlToken", "session")
        r == _request(token)
    IN  IF api_key = <<>>
        THEN [ret |-> Returned("none", PyNone), sent |-> <<>>, written |-> FALSE]
        ELSE IF r.kind = "raise"
        THEN [ret |-> Returned("none", PyNone), sent |-> <<rq>>, written |-> FALSE]
        ELSE IF r.val.shape # "str" \/ r.val.s = <<>>
        THEN [ret |-> Returned("none", PyNone), sent |-> <<rq>>, written |-> FALSE]
        ELSE [ret |-> Returned("none", PyNone),
              sent |-> <<rq, Http("GET", "download_url", "fresh")>>,
              written |-> get.kind = "response" /\ get.status = 200]

-----------------------------------------------------------------------------
(* upload                                                                  *)

\* the debug path reporting a finished upload
DebugNoticeSuccess(tracker) == <<"U","p","l","o","a","d"," ","s","u","c","c","e","s","s","f","u","l">>

\* the status message of the debug path
DebugNotice(tracker) ==
    IF tracker = "HDSKY" THEN <<"D","e","b","u","g"," ","m","o","d","e"," ","e","n","a","b","l","e","d",","," ","n","o","t"," ","s","u","b","m","i","t","t","i","n","g"," ","o","f","f","e","r",".">>
    ELSE <<"D","e","b","u","g"," ","m","o","d","e"," ","e","n","a","b","l","e","d",","," ","n","o","t"," ","u","p","l","o","a","d","i","n","g",".">>

\* what reading a file in text mode yields: CR LF and CR become LF
ReadText(content) ==
    Replace(Replace(content, <<"\r", "\n">>, <<"\n">>), <<"\r">>, <<"\n">>)

\* the submission on the wire, with the description it carries
Submit(url, client, descr) ==
    [method |-> "POST", url |-> url, client |-> client, descr |-> descr]

\* what upload yields: its outcome, the requests it issued, the files and
\* meta['tracker_status'][tracker] it leaves
Uploaded(r, s, d, status) ==
    [ret |-> r, sent |-> s, disk |-> d, tracker_status |-> status]

\* UploadException with its message
RaisedUpload(message) ==
    [kind |-> "raise", exc |-> "UploadException", status |-> 0, ty |-> "none",
     val |-> PyStr(message)]

\* the text HDSKY shows when the offer was added (five CJK characters)
OfferAdded == <<"U+5019", "U+9009", "U+5DF2", "U+6DFB", "U+52A0">>

\* outcomes of the submission of a cookie adapter: final url, status, text
SubmitPosts(tracker) ==
    { HttpRaises("ConnectTimeout") }
    \cup
    IF tracker = "HDSKY"
    THEN { HttpResponse(200, <<"h","t","t","p","s",":","/","/","h","d","s","k","y",".","m","e","/","o","f","f","e","r","s",".","p","h","p">>, <<>>),
           HttpResponse(200, <<"h","t","t","p","s",":","/","/","h","d","s","k","y",".","m","e","/","o","f","f","e","r",".","p","h","p","?","i","d","=","7","7">>, <<>>),
           HttpResponse(200, <<"h","t","t","p","s",":","/","/","h","d","s","k","y",".","m","e","/","o","f","f","e","r",".","p","h","p">>, <<>>),
           HttpResponse(200, <<"h","t","t","p","s",":","/","/","h","d","s","k","y",".","m","e","/","u","p","l","o","a","d",".","p","h","p">>, OfferAdded),
           HttpResponse(200, <<"h","t","t","p","s",":","/","/","h","d","s","k","y",".","m","e","/","l","o","g","i","n",".","p","h","p">>, <<>>),
           HttpResponse(503, <<"h","t","t","p","s",":","/","/","h","d","s","k","y",".","m","e","/","i","n","d","e","x",".","p","h","p">>, <<>>) }
    ELSE { HttpResponse(200, DetailsPrefixOf(tracker) \o <<"4","5","2","1","&","u","p","l","o","a","d","e","d","=","1">>, <<>>),
           HttpResponse(200, DetailsPrefixOf(tracker) \o <<"&","u","p","l","o","a","d","e","d","=","1">>, <<>>),
           HttpResponse(200, <<"h","t","t","p","s",":","/","/","t","r","a","c","k","e","r","/","t","a","k","e","u","p","l","o","a","d",".","p","h","p">>, <<>>),
           HttpResponse(403, <<"h","t","t","p","s",":","/","/","t","r","a","c","k","e","r","/","l","o","g","i","n",".","p","h","p">>, <<>>) }

\* the text of the UploadException for an unexpected response
NotExpected(tracker, up) ==
    (IF tracker = "HDSKY" THEN <<"O","f","f","e","r"," ","s","u","b","m","i","s","s","i","o","n"," ","t","o"," ","H","D","S","K","Y"," ","F","a","i","l","e","d",":"," ","r","e","s","u","l","t"," ","U","R","L"," ">>
     ELSE IF tracker = "AUDIENCES" THEN <<"U","p","l","o","a","d"," ","t","o"," ","A","U","D","I","E","N","C","E","S"," ","F","a","i","l","e","d",":"," ","r","e","s","u","l","t"," ","U","R","L"," ">>
     ELSE <<"U","p","l","o","a","d"," ","t","o"," ","H","H","A","N"," ","F","a","i","l","e","d",":"," ","r","e","s","u","l","t"," ","U","R","L"," ">>)
    \o up.url \o <<" ","(">> \o NatStr(up.status) \o <<")"," ","w","a","s"," ","n","o","t"," ","e","x","p","e","c","t","e","d">>

\* upload of AUDIENCES and HHAN writing the status before the re-download
UploadStatusFirst(tracker, d, status, meta, env) ==
    LET p == PrepareDescription(tracker, d, meta, env.ptgen)
        rq == Submit(UploadUrlOf(tracker), "cookies", ReadText(p.disk.desc))
        up == env.post
        id == IdMatch(QueryOf(up.url))
        dl == Cookie_download_new_torrent(tracker, env.get)
        done == TrackerStatus(PyStr(Replace(up.url, <<"&","u","p","l","o","a","d","e","d","=","1">>, <<>>)),
                              PyStr(id), status.offer_id)
    IN  IF meta.debug
        THEN Uploaded(Returned("bool", PyBool(TRUE)), p.sent, p.disk,
                      [status EXCEPT !.status_message = PyStr(DebugNotice(tracker))])
        ELSE IF ~d.cookie
        THEN Uploaded(Returned("bool", PyBool(FALSE)), p.sent, p.disk, status)
        ELSE IF up.kind = "raise"
        THEN Uploaded(Raised(up.exc, 0), p.sent \o <<rq>>, p.disk, status)
        ELSE IF ~StartsWith(up.url, DetailsPrefixOf(tracker))
        THEN Uploaded(RaisedUpload(NotExpected(tracker, up)), p.sent \o <<rq>>, p.disk, status)
        ELSE IF id = <<>>
        THEN Uploaded(RaisedUpload(<<"U","p","l","o","a","d"," ","s","u","c","c","e","e","d","e","d"," ","b","u","t"," ","t","o","r","r","e","n","t"," ","i","d"," ","w","a","s"," ","n","o","t"," ","p","r","e","s","e","n","t"," ","i","n"," ","t","h","e"," ","r","e","d","i","r","e","c","t"," ","U","R","L",".">>),
                      p.sent \o <<rq>>, p.disk, status)
        ELSE IF dl.ret.kind = "raise"
        THEN Uploaded(dl.ret, p.sent \o <<rq>> \o dl.sent, p.disk, done)
        ELSE Uploaded(Returned("bool", PyBool(TRUE)), p.sent \o <<rq>> \o dl.sent,
                      [p.disk EXCEPT !.torrent = IF dl.written THEN "downloaded" ELSE @],
                      done)

\* AUDIENCES.upload and HHAN.upload (the second torrent of the debug path is
\* a file of its own and is left out)
Cookie_upload(tracker, d, status, meta, env) ==
    LET p == PrepareDescription(tracker, d, meta, env.ptgen)
        rq == Submit(UploadUrlOf(tracker), "cookies", ReadText(p.disk.desc))
        up == env.post
        id == IdMatch(QueryOf(up.url))
        dl == Cookie_download_new_torrent(tracker, env.get)
        done == TrackerStatus(PyStr(Replace(up.url, <<"&","u","p","l","o","a","d","e","d","=","1">>, <<>>)),
                              PyStr(id), status.offer_id)
    IN  IF meta.debug
        THEN Uploaded(Returned("bool", PyBool(TRUE)), p.sent, p.disk,
                      [status EXCEPT !.status_message = PyStr(DebugNotice(tracker))])
        ELSE IF ~d.cookie
        THEN Uploaded(Returned("bool", PyBool(FALSE)), p.sent, p.disk, status)
        ELSE IF up.kind = "raise"
        THEN Uploaded(Raised(up.exc, 0), p.sent \o <<rq>>, p.disk, status)
        ELSE IF ~StartsWith(up.url, DetailsPrefixOf(tracker))
        THEN Uploaded(RaisedUpload(NotExpected(tracker, up)), p.sent \o <<rq>>, p.disk, status)
        ELSE IF id = <<>>
        THEN Uploaded(RaisedUpload(<<"U","p","l","o","a","d"," ","s","u","c","c","e","e","d","e","d"," ","b","u","t"," ","t","o","r","r","e","n","t"," ","i","d"," ","w","a","s"," ","n","o","t"," ","p","r","e","s","e","n","t"," ","i","n"," ","t","h","e"," ","r","e","d","i","r","e","c","t"," ","U","R","L",".">>),
                      p.sent \o <<rq>>, p.disk, status)
        ELSE IF dl.ret.kind = "raise"
        THEN Uploaded(dl.ret, p.sent \o <<rq>> \o dl.sent, p.disk, status)
        ELSE Uploaded(Returned("bool", PyBool(TRUE)), p.sent \o <<rq>> \o dl.sent,
                      [p.disk EXCEPT !.torrent = IF dl.written THEN "downloaded" ELSE @],
                      done)

\* HDSKY.upload: the release is submitted as an offer
HDSKY_upload(d, status, meta, env) ==
    LET p == PrepareDescription("HDSKY", d, meta, env.ptgen)
        rq == Submit(UploadUrlOf("HDSKY"), "cookies", ReadText(p.disk.desc))
        up == env.post
        id == IdMatch(QueryOf(up.url))
        accepted == \/ StartsWith(up.url, <<"h","t","t","p","s",":","/","/","h","d","s","k","y",".","m","e","/","o","f","f","e","r","s",".","p","h","p">>)
                    \/ StartsWith(up.url, <<"h","t","t","p","s",":","/","/","h","d","s","k","y",".","m","e","/","o","f","f","e","r",".","p","h","p","?","i","d","=">>)
                    \/ Contains(up.text, OfferAdded)
                    \/ Contains(Lower(up.url), <<"o","f","f","e","r">>)
    IN  IF meta.debug
        THEN Uploaded(Returned("bool", PyBool(TRUE)), p.sent, p.disk,
                      [status EXCEPT !.status_message = PyStr(DebugNotice("HDSKY"))])
        ELSE IF ~d.cookie
        THEN Uploaded(Returned("bool", PyBool(FALSE)), p.sent, p.disk, status)
        ELSE IF up.kind = "raise"
        THEN Uploaded(Raised(up.exc, 0), p.sent \o <<rq>>, p.disk, status)
        ELSE IF ~accepted
        THEN Uploaded(RaisedUpload(NotExpected("HDSKY", up)), p.sent \o <<rq>>, p.disk, status)
        ELSE IF id # <<>>
        THEN Uploaded(Returned("bool", PyBool(TRUE)), p.sent \o <<rq>>, p.disk,
                      TrackerStatus(PyStr(up.url), status.torrent_id, PyStr(id)))
        ELSE Uploaded(Returned("bool", PyBool(TRUE)), p.sent \o <<rq>>, p.disk,
                      [status EXCEPT !.status_message = PyStr(<<"O","f","f","e","r"," ","s","u","b","m","i","t","t","e","d"," ","s","u","c","c","e","s","s","f","u","l","l","y">>)])

\* the `data` of createOredit's answer: an object with the keys id and
\* torrentId (PyNone: key absent)
Created(id, torrentId) == [shape |-> "created", id |-> id, torrentId |-> torrentId]

\* MTEAM.upload
MTEAM_upload(adapter, d, status, meta, env) ==
    LET p == PrepareDescription("MTEAM", d, meta, env.ptgen)
        again == ~p.ptgen /\ IntOf(PyOr(meta.imdb_id, PyInt(0))) # 0
        before == p.sent \o (IF again THEN <<Http("GET", "ptgen", "common")>> ELSE <<>>)
        rq == Submit(UploadUrlOf("MTEAM"), "session", ReadText(p.disk.desc))
        r == _request(env.post)
        data_obj == r.val
        torrent_id == IF data_obj.shape = "created"
                      THEN PyOr(data_obj.id, data_obj.torrentId) ELSE PyNone
        dl == MTEAM_download_new_torrent(adapter.api_key, env.token, env.get)
        ok == [status EXCEPT !.status_message = PyStr(<<"U","p","l","o","a","d"," ","s","u","c","c","e","s","s","f","u","l">>)]
    IN  IF meta.debug
        THEN Uploaded(Returned("bool", PyBool(TRUE)), before, p.disk,
                      [status EXCEPT !.status_message = PyStr(DebugNotice("MTEAM"))])
        ELSE IF r.kind = "raise"
        THEN Uploaded(IF r.exc = "MTEAMRequestError" THEN Returned("bool", PyBool(FALSE)) ELSE r,
                      before \o <<rq>>, p.disk, status)
        ELSE IF data_obj.shape \in {"created", "dict"} /\ Truthy(torrent_id) /\ dl.ret.kind = "raise"
        THEN Uploaded(dl.ret, before \o <<rq>> \o dl.sent, p.disk,
                      [ok EXCEPT !.torrent_id = PyStr(StrOf(torrent_id))])
        ELSE IF data_obj.shape \in {"created", "dict"} /\ Truthy(torrent_id)
        THEN Uploaded(Returned("bool", PyBool(TRUE)), before \o <<rq>> \o dl.sent,
                      [p.disk EXCEPT !.torrent = IF dl.written THEN "downloaded" ELSE @],
                      [ok EXCEPT !.torrent_id = PyStr(StrOf(torrent_id))])
        ELSE Uploaded(Returned("bool", PyBool(TRUE)), before \o <<rq>>, p.disk, ok)

\* upload of the adapter
upload(adapter, d, status, meta, env) ==
    CASE adapter.tracker = "MTEAM" -> MTEAM_upload(adapter, d, status, meta, env)
      [] adapter.tracker = "HDSKY" -> HDSKY_upload(d, status, meta, env)
      [] OTHER -> Cookie_upload(adapter.tracker, d, status, meta, env)

\* what the world answers during one upload: PTGen's text, the answer to the
\* submission, to genDlToken (MTEAM) and to the GET of the torrent (OSError: the
\* answer came and writing the torrent file failed)
UploadEnv(ptgen, post, token, get) ==
    [ptgen |-> ptgen, post |-> post, token |-> token, get |-> get]

UploadEnvs(tracker) ==
    IF tracker = "MTEAM"
    THEN { UploadEnv(pt, po, PostRaises("ReadTimeout"), HttpRaises("ConnectError")) :
             pt \in ({<<>>, <<"[","i","m","g","]","p",".","j","p","g","[","/","i","m","g","]">> \o <<"\n">>}), po \in ({ PostRaises("ReadTimeout"), PostRaises("ConnectError"), PostResponse(500, InvalidBody), PostResponse(200, InvalidBody), PostResponse(200, Body("dict", PyInt(1), PyStr(<<"e","r","r">>), NoPayload)) } \cup { PostResponse(200, Body("dict", PyInt(0), PyStr(<<>>), d)) : d \in { Created(PyInt(4521), PyNone), Created(PyNone, PyStr(<<"8","8">>)), Created(PyInt(0), PyNone), EmptyDictPayload, NoPayload } }) }
         \cup { UploadEnv(<<>>, PostResponse(200, Body("dict", PyInt(0), PyStr(<<>>),
                                                       Created(PyInt(4521), PyNone))), t, g) :
                  t \in ({ PostRaises("ReadTimeout"), PostResponse(500, InvalidBody) } \cup { PostResponse(200, Body("dict", PyInt(0), PyStr(<<>>), d)) : d \in { Payload("str", <<"h","t","t","p","s",":","/","/","d","l","/","t">>, <<>>, <<>>), Payload("str", <<>>, <<>>, <<>>), NoPayload, EmptyDictPayload, Payload("dictbad", <<>>, <<>>, <<>>) } }), g \in ({ HttpRaises("ConnectError"), HttpRaises("OSError") } \cup { HttpResponse(st, <<>>, <<>>) : st \in {200, 404} }) }
    ELSE { UploadEnv(pt, po, PostRaises("ReadTimeout"), HttpRaises("ConnectError")) :
             pt \in ({<<>>, <<"[","i","m","g","]","p",".","j","p","g","[","/","i","m","g","]">> \o <<"\n">>}), po \in SubmitPosts(tracker) }
         \cup { UploadEnv(<<>>, HttpResponse(200, DetailsPrefixOf(tracker) \o <<"4","5","2","1","&","u","p","l","o","a","d","e","d","=","1">>, <<>>),
                          PostRaises("ReadTimeout"), g) :
                  g \in IF tracker = "HDSKY" THEN {} ELSE ({ HttpRaises("ConnectError"), HttpRaises("OSError") } \cup { HttpResponse(st, <<>>, <<>>) : st \in {200, 404} }) }

\* the phases one upload call went through, in the order of the code:
\* create_torrent_for_upload ("torrent"), the description file made
\* available ("description"), the form fields built ("mapping"), the
\* submission ("submit"), the re-download ("download"), the return or raise
\* ("outcome"); the debug path of AUDIENCES and HHAN calls
\* create_torrent_for_upload once more, for the debug torrent
Phases(tracker, meta, out) ==
    <<"torrent", "description", "mapping">>
    \o (IF meta.debug
        THEN IF tracker \in {"AUDIENCES", "HHAN"} THEN <<"torrent">> ELSE <<>>
        ELSE (IF \E i \in 1..Len(out.sent) : out.sent[i].url = UploadUrlOf(tracker)
              THEN <<"submit">> ELSE <<>>)
             \o (IF \E i \in 1..Len(out.sent) :
                       out.sent[i].client = "fresh" \/ out.sent[i].url = "https://api.m-team.cc/api/torrent/genDlToken"
                 THEN <<"download">> ELSE <<>>))
    \o <<"outcome">>

DoUpload ==
    /\ call.op = "none"
    /\ self.tracker \in ({"AUDIENCES", "HHAN", "HDSKY", "MTEAM"})
    /\ \E meta \in ({ UploadMeta(dbg, i, p, b) : dbg \in BOOLEAN, i \in {PyInt(0), PyInt(133093)}, p \in BOOLEAN, b \in {"1", "2"} }), env \in UploadEnvs(self.tracker) :
        LET out == upload(self, disk, tracker_status, meta, env)
        IN  /\ call' = [op |-> "upload", meta |-> meta, env |-> env,
                        phases |-> Phases(self.tracker, meta, out)]
            /\ ret' = out.ret
            /\ sent' = out.sent
            /\ disk' = out.disk
            /\ tracker_status' = out.tracker_status
    /\ UNCHANGED self

NextAdapter == DoValidate \/ DoSearch \/ DoGetInfo \/ DoUpload \/ Done

SpecAdapter == InitAdapter /\ [][NextAdapter]_vars

-----------------------------------------------------------------------------
(* Missing credentials, transport failures, rejected submissions           *)

\* the adapter's credential is missing: no cookie file, or an empty api_key
C12_CredentialMissing ==
    IF self.tracker = "MTEAM" THEN self.api_key = <<>> ELSE ~disk.cookie

\* the operation returned its failure value
C14_FailureValue ==
    /\ ret.kind = "return"
    /\ \/ ret.ty = "bool" /\ ret.val = PyBool(FALSE)
       \/ ret.ty = "tuple" /\ ret.val = AllNone
       \/ ret.ty = "list" /\ ret.val = <<>>
       \/ ret.ty = "none"

\* C12: when the credential is missing (cookie file absent, MTEAM api_key
\* empty), validate_credentials, search_existing and
\* get_info_from_torrent_id return False or the all-None tuple and issue no
\* network request
C12_NoRequestWithoutCredential ==
    (/\ C12_CredentialMissing
     /\ call.op \in {"validate_credentials", "search_existing", "get_info_from_torrent_id"})
    => /\ sent = <<>>
       /\ ret.kind = "return"
       /\ \/ ret.ty = "bool" /\ ret.val = PyBool(FALSE)
          \/ ret.ty = "tuple" /\ ret.val = AllNone

\* C13: when the credential is missing, a non-debug upload aborts with a
\* failure before any network call is made: no PTGen lookup, no submission,
\* no re-download
C13_UploadAbortsWithoutCredential ==
    (C12_CredentialMissing /\ call.op = "upload" /\ ~call.meta.debug)
    => /\ sent = <<>>
       /\ ret.kind = "raise" \/ (ret.ty = "bool" /\ ret.val = PyBool(FALSE))

\* the submission of the current upload is on the wire
C14_Submitted ==
    /\ call.op = "upload"
    /\ \E i \in 1..Len(sent) :
           sent[i].method = "POST" /\ sent[i].url = UploadUrlOf(self.tracker)

\* a request of the current operation ended in a timeout or connection error
C14_TransportFailed ==
    CASE call.op \in {"validate_credentials", "search_existing", "get_info_from_torrent_id"}
           -> sent # <<>> /\ call.answer.kind = "raise"
      [] call.op = "upload"
           -> \/ C14_Submitted /\ call.env.post.kind = "raise"
              \/ /\ call.env.get.kind = "raise"
                 /\ call.env.get.exc # "OSError"
                 /\ \E i \in 1..Len(sent) : sent[i].method = "GET" /\ sent[i].client = "fresh"
      [] OTHER -> FALSE

\* C14: a transport failure (timeout, connection error) is caught and the
\* operation returns its failure value (False, [], the all-None tuple or
\* None) instead of raising, in every adapter
C14_TransportFailureCaught ==
    C14_TransportFailed => C14_FailureValue \/ (call.op = "upload" /\ ret.kind = "return")

\* the answer to the submission does not meet the adapter's success condition
C15_Rejected ==
    /\ C14_Submitted
    /\ call.env.post.kind = "response"
    /\ CASE self.tracker = "MTEAM" -> _request(call.env.post).kind = "raise"
         [] self.tracker = "HDSKY" ->
              ~ \/ StartsWith(call.env.post.url, <<"h","t","t","p","s",":","/","/","h","d","s","k","y",".","m","e","/","o","f","f","e","r","s",".","p","h","p">>)
                \/ StartsWith(call.env.post.url, <<"h","t","t","p","s",":","/","/","h","d","s","k","y",".","m","e","/","o","f","f","e","r",".","p","h","p","?","i","d","=">>)
                \/ Contains(call.env.post.text, OfferAdded)
                \/ Contains(Lower(call.env.post.url), <<"o","f","f","e","r">>)
         [] OTHER -> ~StartsWith(call.env.post.url, DetailsPrefixOf(self.tracker))

\* C15: a submission whose response does not meet the success condition
\* (cookie adapters: the final url is not the expected one; MTEAM: non-200,
\* non-JSON or failure envelope) raises UploadException, whose message
\* carries the response url and status
C15_RejectedSubmissionRaises ==
    C15_Rejected
    => /\ ret.kind = "raise"
       /\ ret.exc = "UploadException"
       /\ self.tracker # "MTEAM" =>
            /\ Contains(ret.val.s, call.env.post.url)
            /\ Contains(ret.val.s, NatStr(call.env.post.status))

-----------------------------------------------------------------------------
(* What an upload leaves behind                                            *)

C17_NoRetry ==
    /\ call.op \in {"validate_credentials", "search_existing"} => Len(sent) <= 1
    /\ (self.tracker = "MTEAM" /\ call.op = "get_info_from_torrent_id") => Len(sent) <= 1
    /\ (self.tracker = "MTEAM" /\ call.op = "validate_credentials" /\ self.api_key # <<>>)
           => Len(sent) = 1 /\ sent[1].method = "POST"
    /\ call.op = "upload" =>
           Cardinality({ i \in 1..Len(sent) :
                           sent[i].method = "POST" /\ sent[i].url = UploadUrlOf(self.tracker) }) <= 1

\* validate_credentials of MTEAM ran into a timeout, gave up after its one
\* POST and returned False
C17_Witness ==
    /\ call.op = "validate_credentials"
    /\ self.tracker = "MTEAM"
    /\ call.answer.kind = "raise"
    /\ Len(sent) = 1
    /\ ret = Returned("bool", PyBool(FALSE))

\* C18: the description is generated only when the per-tracker description
\* file does not exist: once written the file never changes, and every upload
\* submits the content of the file as read in text mode, cached or just
\* written, whatever meta holds by then
C18_DescriptionWrittenOnce ==
    [][ /\ disk.desc_exists => (disk'.desc_exists /\ disk'.desc = disk.desc)
        /\ call'.op = "upload" =>
             \A i \in 1..Len(sent') :
                 (sent'[i].method = "POST" /\ sent'[i].url = UploadUrlOf(self.tracker))
                 => sent'[i].descr = ReadText(IF disk.desc_exists THEN disk.desc ELSE disk'.desc) ]_vars

\* an upload submitted the cached description although its meta would now
\* generate a different one
C18_Witness ==
    /\ C14_Submitted
    /\ \E i \in 1..Len(sent) :
           /\ sent[i].method = "POST" /\ sent[i].url = UploadUrlOf(self.tracker)
           /\ sent[i].descr = ReadText(disk.desc)
    /\ disk.desc # DescriptionOf(self.tracker, call.meta, call.env.ptgen)

\* the requests of the current MTEAM upload that go to genDlToken
C19_Tokens ==
    { i \in 1..Len(sent) : sent[i].url = "https://api.m-team.cc/api/torrent/genDlToken" }

\* the requests of the current MTEAM upload that fetch the torrent
C19_Gets == { i \in 1..Len(sent) : sent[i].url = "download_url" }

\* C19: MTEAM re-downloads only after the create request succeeded with a
\* remote id; the token is asked with one POST to genDlToken through the
\* session carrying the API key, then one GET goes out through a fresh
\* client; when the token request fails or its answer is empty or not a
\* string, no GET is issued and the local torrent file stays as created
C19_RedownloadAfterCreate ==
    (call.op = "upload" /\ self.tracker = "MTEAM") =>
        LET cr == _request(call.env.post)
            tk == _request(call.env.token)
            token_ok == tk.kind = "return" /\ tk.val.shape = "str" /\ tk.val.s # <<>>
        IN  /\ C19_Tokens # {} =>
                 /\ C14_Submitted
                 /\ cr.kind = "return"
                 /\ cr.val.shape = "created"
                 /\ Truthy(PyOr(cr.val.id, cr.val.torrentId))
                 /\ tracker_status.torrent_id = PyStr(StrOf(PyOr(cr.val.id, cr.val.torrentId)))
            /\ Cardinality(C19_Tokens) <= 1
            /\ \A i \in C19_Tokens :
                 /\ sent[i].method = "POST" /\ sent[i].client = "session"
                 /\ \E j \in 1..(i - 1) : sent[j].url = UploadUrlOf("MTEAM")
            /\ Cardinality(C19_Gets) <= 1
            /\ \A g \in C19_Gets :
                 /\ sent[g].method = "GET" /\ sent[g].client = "fresh"
                 /\ \E i \in C19_Tokens : i < g
            /\ ~token_ok => (C19_Gets = {} /\ disk.torrent = "created")

\* the token came, the GET went out through the fresh client and the torrent
\* file was replaced
C19_Witness ==
    /\ call.op = "upload"
    /\ self.tracker = "MTEAM"
    /\ C19_Gets # {}
    /\ disk.torrent = "downloaded"

\* C20 as stated: after a non-debug upload returned True,
\* tracker_status[tracker] holds the status message and the remote torrent
\* id, for AUDIENCES, HHAN, HDSKY and MTEAM
C20_TrueLeavesMessageAndId ==
    (call.op = "upload" /\ ~call.meta.debug /\ ret = Returned("bool", PyBool(TRUE)))
    => /\ tracker_status.status_message # PyNone
       /\ tracker_status.torrent_id # PyNone

\* C20, amended: after a non-debug upload returned True,
\* tracker_status[tracker] holds the status message of this upload; it holds
\* the remote torrent id for AUDIENCES and HHAN (the id of the redirect url)
\* and, for MTEAM, when the create response carries a truthy id or torrentId
C20_TrueLeavesMessageAndKnownId ==
    (call.op = "upload" /\ ~call.meta.debug /\ ret = Returned("bool", PyBool(TRUE)))
    => /\ tracker_status.status_message.t = "str"
       /\ tracker_status.status_message.s # <<>>
       /\ ~Contains(tracker_status.status_message.s, <<"D","e","b","u","g"," ","m","o","d","e">>)
       /\ self.tracker \in {"AUDIENCES", "HHAN"} =>
            /\ IdMatch(QueryOf(call.env.post.url)) # <<>>
            /\ tracker_status.torrent_id = PyStr(IdMatch(QueryOf(call.env.post.url)))
       /\ (/\ self.tracker = "MTEAM"
           /\ _request(call.env.post).val.shape = "created"
           /\ Truthy(PyOr(_request(call.env.post).val.id, _request(call.env.post).val.torrentId)))
          => tracker_status.torrent_id =
                PyStr(StrOf(PyOr(_request(call.env.post).val.id,
                                 _request(call.env.post).val.torrentId)))

\* AUDIENCES accepted the upload and the status holds the details url and
\* the id taken from it
C20_Witness ==
    /\ call.op = "upload"
    /\ self.tracker = "AUDIENCES"
    /\ ~call.meta.debug
    /\ ret = Returned("bool", PyBool(TRUE))
    /\ tracker_status.torrent_id = PyStr(<<"4","5","2","1">>)
    /\ tracker_status.status_message = PyStr(<<"h","t","t","p","s",":","/","/","a","u","d","i","e","n","c","e","s",".","m","e","/","d","e","t","a","i","l","s",".","p","h","p","?","i","d","=","4","5","2","1">>)

-----------------------------------------------------------------------------
(* The course of one upload call                                           *)

\* the place of a phase in the documented order
C21_Rank(phase) ==
    CASE phase = "torrent" -> 1
      [] phase = "description" -> 2
      [] phase = "mapping" -> 3
      [] phase = "submit" -> 4
      [] phase = "download" -> 5
      [] OTHER -> 6

\* the submission comes after the description exists, and a failed
\* submission is the last request of the call
C21_SubmissionInPlace ==
    \A i \in 1..Len(sent) :
        (sent[i].method = "POST" /\ sent[i].url = UploadUrlOf(self.tracker)) =>
            /\ disk.desc_exists
            /\ disk.torrent # "absent"
            /\ sent[i].descr = ReadText(disk.desc)
            /\ \A j \in 1..(i - 1) : sent[j].client = "common"
            /\ (\/ call.env.post.kind = "raise"
                \/ C15_Rejected) => i = Len(sent)

\* C21 as stated: within one upload call the phases torrent file creation,
\* description available, field mapping, at most one submission POST and
\* terminal outcome are strictly ordered and none is entered twice; the
\* submission is never issued before the description file exists, and after
\* a failed submission no further request is made
C21_PhasesInOrder ==
    call.op = "upload" =>
        /\ \A i \in 1..(Len(call.phases) - 1) :
               C21_Rank(call.phases[i]) < C21_Rank(call.phases[i + 1])
        /\ call.phases[Len(call.phases)] = "outcome"
        /\ C21_SubmissionInPlace

\* C21, amended: the phases are strictly ordered and none is entered twice,
\* except that the debug path of AUDIENCES and HHAN creates a second torrent
\* file (the debug torrent) after field mapping; the submission is never
\* issued before the description file exists, and after a failed submission
\* no further request is made
C21_PhasesInOrderButDebugTorrent ==
    call.op = "upload" =>
        /\ \/ \A i \in 1..(Len(call.phases) - 1) :
                  C21_Rank(call.phases[i]) < C21_Rank(call.phases[i + 1])
           \/ /\ call.meta.debug
              /\ self.tracker \in {"AUDIENCES", "HHAN"}
              /\ call.phases = <<"torrent", "description", "mapping", "torrent", "outcome">>
        /\ call.phases[Len(call.phases)] = "outcome"
        /\ C21_SubmissionInPlace

\* the submission was rejected and was the last thing the call did before
\* its outcome
C21_Witness ==
    /\ call.op = "upload"
    /\ C15_Rejected
    /\ call.phases = <<"torrent", "description", "mapping", "submit", "outcome">>
    /\ sent[Len(sent)].url = UploadUrlOf(self.tracker)

\* C22: HDSKY.upload, non-debug with the cookie file present, returns True
\* only when the final url is the offers list or an offer's page or the body
\* holds the success marker; an answer that stays on
\* https://hdsky.me/offer.php without the marker raises UploadException
C22_OfferAcceptedOnlyOnRedirectOrMarker ==
    (/\ call.op = "upload"
     /\ self.tracker = "HDSKY"
     /\ ~call.meta.debug
     /\ disk.cookie
     /\ call.env.post.kind = "response")
    => /\ ret = Returned("bool", PyBool(TRUE)) =>
            \/ StartsWith(call.env.post.url, <<"h","t","t","p","s",":","/","/","h","d","s","k","y",".","m","e","/","o","f","f","e","r","s",".","p","h","p">>)
            \/ StartsWith(call.env.post.url, <<"h","t","t","p","s",":","/","/","h","d","s","k","y",".","m","e","/","o","f","f","e","r",".","p","h","p","?","i","d","=">>)
            \/ Contains(call.env.post.text, OfferAdded)
       /\ (/\ call.env.post.url = <<"h","t","t","p","s",":","/","/","h","d","s","k","y",".","m","e","/","o","f","f","e","r",".","p","h","p">>
           /\ ~Contains(call.env.post.text, OfferAdded))
          => (ret.kind = "raise" /\ ret.exc = "UploadException")

\* the debug notice of the adapter's upload
C26_Notice ==
    IF self.tracker = "HDSKY" THEN <<"D","e","b","u","g"," ","m","o","d","e"," ","e","n","a","b","l","e","d",","," ","n","o","t"," ","s","u","b","m","i","t","t","i","n","g"," ","o","f","f","e","r",".">>
    ELSE <<"D","e","b","u","g"," ","m","o","d","e"," ","e","n","a","b","l","e","d",","," ","n","o","t"," ","u","p","l","o","a","d","i","n","g",".">>

C27_CreateSucceededMeansTrue ==
    (/\ call.op = "upload"
     /\ self.tracker = "MTEAM"
     /\ ~call.meta.debug
     /\ _request(call.env.post).kind = "return")
    => /\ ret = Returned("bool", PyBool(TRUE))
       /\ tracker_status.status_message = PyStr(<<"U","p","l","o","a","d"," ","s","u","c","c","e","s","s","f","u","l">>)

\* the create request succeeded, the token came, the GET or the write failed
\* and upload returned True with the torrent file as created
C27_Witness ==
    /\ call.op = "upload"
    /\ self.tracker = "MTEAM"
    /\ ~call.meta.debug
    /\ C19_Gets # {}
    /\ call.env.get.kind = "raise"
    /\ ret = Returned("bool", PyBool(TRUE))
    /\ disk.torrent = "created"

-----------------------------------------------------------------------------
(* STANDARD_ID_TO_RES against get_standard_id                              *)

\* the resolution class of each entry of C10_Classes, as STANDARD_ID_TO_RES
\* names it
C24_ClassNames == <<"8K", "2160p", "1080p", "1080i", "720p", "SD">>

\* C24: STANDARD_ID_TO_RES is consistent with get_standard_id: when
\* get_standard_id maps a resolution string to an id, _standard_id_to_res of
\* that id is the string's resolution class (8K, 2160p for 4K, 1080p, 1080i,
\* 720p, SD for 480/576), given as integer or as string; and every id of
\* STANDARD_ID_TO_RES is the result of get_standard_id for some input
C24_TableMatchesStandardId ==
    /\ (call.op = "MTEAM.get_standard_id" /\ ret.ty = "int") =>
          LET r == Lower(C10_Resolution)
              hit == {k \in 1..6 : \E tok \in C10_TokensOf(k) : Contains(r, tok)}
              k == CHOOSE c \in hit : \A j \in hit : c <= j
          IN  /\ hit # {}
              /\ _standard_id_to_res(ret.val) = C24_ClassNames[k]
              /\ _standard_id_to_res(PyStr(IntStr(ret.val.n))) = C24_ClassNames[k]
              /\ \A c \in 1..6 : r \in C10_Classes[c].strings =>
                     _standard_id_to_res(ret.val) = C24_ClassNames[c]
    /\ \A id \in {1, 2, 3, 5, 6, 7} :
          /\ _standard_id_to_res(PyInt(id)) # ""
          /\ \E resolution \in ResolutionValues :
                 get_standard_id(ResolutionMeta(resolution)) = Returned("int", PyInt(id))
    /\ \A id \in {0, 4, 8} : _standard_id_to_res(PyInt(id)) = ""

\* '4K' was mapped to 6, which STANDARD_ID_TO_RES names 2160p
C24_Witness ==
    /\ call.op = "MTEAM.get_standard_id"
    /\ call.meta.resolution = PyStr(<<"4","K">>)
    /\ ret = Returned("int", PyInt(6))
    /\ _standard_id_to_res(ret.val) = "2160p"

-----------------------------------------------------------------------------
(* Form fields of upload: category, anonymity, short description           *)

\* a list of strings
StrList(items) == [t |-> "list", n |-> Len(items), s |-> items]

\* what iterating over v yields: the items of a list, the characters of a str
ItemsOf(v) == IF v.t = "list" THEN v.s ELSE [i \in 1..Len(v.s) |-> <<v.s[i]>>]

RECURSIVE Join(_, _)
\* sep.join(items)
Join(items, sep) ==
    IF items = <<>> THEN <<>>
    ELSE IF Len(items) = 1 THEN items[1]
    ELSE items[1] \o sep \o Join(Tail(items), sep)

\* the tail of get_category_id answering None when nothing matches
OtherCategoryNoDefault(meta) ==
    LET Joined(v) == IF v.t = "list" THEN Join(v.s, <<",", " ">>) ELSE StrOf(v)
        genres   == Lower(Joined(Get(meta.genres, PyStr(<<>>))))
        keywords == Lower(Joined(Get(meta.keywords, PyStr(<<>>))))
    IN  IF Contains(genres, <<"d","o","c","u","m","e","n","t","a","r","y">>) \/ Contains(keywords, <<"d","o","c","u","m","e","n","t","a","r","y">>)
        THEN PyInt(404)
        ELSE IF Contains(genres, <<"a","n","i","m","a","t","i","o","n">>) \/ Contains(keywords, <<"a","n","i","m","a","t","i","o","n">>)
                \/ Truthy(Get(meta.anime, PyBool(FALSE)))
        THEN PyInt(405)
        ELSE IF Contains(genres, <<"s","p","o","r","t">>) \/ Contains(genres, <<"s","p","o","r","t","s">>)
        THEN PyInt(407)
        ELSE PyNone

\* get_category_id for a category that is neither MOVIE nor TV
OtherCategory(meta) ==
    LET Joined(v) == IF v.t = "list" THEN Join(v.s, <<",", " ">>) ELSE StrOf(v)
        genres   == Lower(Joined(Get(meta.genres, PyStr(<<>>))))
        keywords == Lower(Joined(Get(meta.keywords, PyStr(<<>>))))
    IN  IF Contains(genres, <<"d","o","c","u","m","e","n","t","a","r","y">>) \/ Contains(keywords, <<"d","o","c","u","m","e","n","t","a","r","y">>)
        THEN PyInt(404)
        ELSE IF Contains(genres, <<"a","n","i","m","a","t","i","o","n">>) \/ Contains(keywords, <<"a","n","i","m","a","t","i","o","n">>)
                \/ Truthy(Get(meta.anime, PyBool(FALSE)))
        THEN PyInt(405)
        ELSE IF Contains(genres, <<"s","p","o","r","t">>) \/ Contains(genres, <<"s","p","o","r","t","s">>)
        THEN PyInt(407)
        ELSE PyInt(409)

\* MTEAM.get_category_id(meta); genres and keywords are a str or a list of str
get_category_id(meta) ==
    LET Joined(v) == IF v.t = "list" THEN Join(v.s, <<",", " ">>) ELSE StrOf(v)
        IsHdResolution(r) ==
            r \in {<<"1","0","8","0","p">>, <<"7","2","0","p">>, <<"2","1","6","0","p">>, <<"4","k">>}
        category   == StrOf(Get(meta.category, PyStr(<<>>)))
        resolution == Lower(StrOf(Get(meta.resolution, PyStr(<<>>))))
        media_type == StrOf(Get(meta.type, PyStr(<<>>)))
        is_disc    == Get(meta.is_disc, PyStr(<<>>))
        genres     == Lower(Joined(Get(meta.genres, PyStr(<<>>))))
        keywords   == Lower(Joined(Get(meta.keywords, PyStr(<<>>))))
    IN  IF category = <<"M","O","V","I","E">>
        THEN Returned("int",
                 IF PyEq(is_disc, PyStr(<<"B","D","M","V">>)) THEN PyInt(421)
                 ELSE IF PyEq(is_disc, PyStr(<<"D","V","D">>)) THEN PyInt(420)
                 ELSE IF media_type = <<"R","E","M","U","X">> THEN PyInt(439)
                 ELSE IF IsHdResolution(resolution) THEN PyInt(419)
                 ELSE PyInt(401))
        ELSE IF category = <<"T","V">>
        THEN Returned("int",
                 IF Contains(genres, <<"a","n","i","m","a","t","i","o","n">>) \/ Contains(keywords, <<"a","n","i","m","a","t","i","o","n">>)
                    \/ Truthy(Get(meta.anime, PyBool(FALSE)))
                    \/ Truthy(Get(meta.mal_id, PyNone))
                 THEN PyInt(405)
                 ELSE IF PyEq(is_disc, PyStr(<<"B","D","M","V">>)) THEN PyInt(438)
                 ELSE IF PyEq(is_disc, PyStr(<<"D","V","D">>)) THEN PyInt(435)
                 ELSE IF IsHdResolution(resolution) THEN PyInt(402)
                 ELSE PyInt(403))
        ELSE LET id == OtherCategory(meta)
             IN  Returned(id.t, id)

\* meta['ptgen']: the PTGen record with its title and genre keys
Ptgen(chinese_title, trans_title, genre) ==
    [t |-> "dict",
     n |-> Cardinality({k \in 1..3 : <<chinese_title, trans_title, genre>>[k].t # "absent"}),
     s |-> <<>>,
     chinese_title |-> chinese_title, trans_title |-> trans_title, genre |-> genre]

RECURSIVE TitlesLine(_)
\* for title_ in trans_title: small_descr += f'{title_} / '
TitlesLine(items) ==
    IF items = <<>> THEN <<>>
    ELSE Head(items) \o <<" ", "/", " ">> \o TitlesLine(Tail(items))

\* the short description upload submits (small_descr, MTEAM: smallDescr)
small_descr(tracker, meta) ==
    LET ptgen == Get(meta.ptgen, Ptgen(Absent, Absent, Absent))
        title == StrOf(Get(meta.title, PyStr(<<>>)))
        \* "| ", the two CJK characters of the word for category, ":"
        CategoryLabel == <<"|", " ", "U+7C7B", "U+522B", ":">>
    IN  IF tracker = "MTEAM"
        THEN LET first  == PyOr(Get(ptgen.chinese_title, PyStr(<<>>)),
                                Get(ptgen.trans_title, PyStr(<<>>)))
                 picked == IF first.t = "list" /\ first.n > 0
                           THEN PyStr(first.s[1]) ELSE first
                 chinese_title == IF Truthy(ptgen) /\ Truthy(picked)
                                  THEN Strip(StrOf(picked)) ELSE <<>>
                 genres == IF Truthy(ptgen) THEN Get(ptgen.genre, StrList(<<>>))
                           ELSE StrList(<<>>)
                 genre_value == IF Truthy(genres) /\ Strip(ItemsOf(genres)[1]) # <<>>
                                THEN ItemsOf(genres)[1] ELSE <<>>
             IN  IF chinese_title # <<>>
                 THEN chinese_title \o (IF genre_value # <<>>
                                        THEN <<" ">> \o CategoryLabel \o genre_value
                                        ELSE <<>>)
                 ELSE title
        ELSE LET trans_title == Get(ptgen.trans_title, StrList(<<>>))
                 genres      == Get(ptgen.genre, StrList(<<>>))
                 genre_value == IF Truthy(genres) THEN ItemsOf(genres)[1] ELSE <<>>
             IN  IF ~(trans_title.t = "list" /\ trans_title.s = << <<>> >>)
                 THEN Replace(TitlesLine(ItemsOf(trans_title)) \o CategoryLabel \o genre_value,
                              <<"/", " ", "|">>, <<"|">>)
                 ELSE title

\* the anonymity field of the form: uplver of AUDIENCES (left out when not
\* anonymous) and of HHAN, anonymous of MTEAM
anonymous(tracker, meta, config_anon) ==
    LET anon == Get(meta.anon, PyNone)
        conf == Truthy(Get(config_anon, PyBool(FALSE)))
    IN  CASE tracker = "AUDIENCES" ->
                 IF PyEq(anon, PyInt(1)) \/ conf THEN PyStr(<<"y","e","s">>) ELSE Absent
          [] tracker = "HHAN" ->
                 IF PyEq(anon, PyInt(0)) /\ ~conf THEN PyStr(<<"n","o">>) ELSE PyStr(<<"y","e","s">>)
          [] OTHER -> PyBool(PyEq(anon, PyInt(1)) \/ conf)

DoCategoryId ==
    /\ call.op = "none"
    /\ \E category \in {Absent, PyStr(<<"M","O","V","I","E">>), PyStr(<<"T","V">>), PyStr(<<"F","A","N","R","E","S">>)},
          resolution \in {PyStr(<<"1","0","8","0","p">>), PyStr(<<"4","K">>), PyStr(<<"4","8","0","p">>)},
          type \in {PyStr(<<"R","E","M","U","X">>), PyStr(<<"W","E","B","D","L">>)},
          is_disc \in {Absent, PyNone, PyStr(<<"B","D","M","V">>), PyStr(<<"D","V","D">>)},
          genres \in {Absent, PyStr(<<"A","n","i","m","a","t","i","o","n">>), PyStr(<<"D","o","c","u","m","e","n","t","a","r","y">>),
                      PyStr(<<"R","e","a","l","i","t","y">>), PyStr(<<"S","p","o","r","t">>),
                      StrList(<<<<"D","r","a","m","a">>, <<"A","n","i","m","a","t","i","o","n">>>>)},
          keywords \in {Absent, PyStr(<<"d","o","c","u","m","e","n","t","a","r","y">>)},
          anime \in {Absent, PyBool(TRUE)},
          mal_id \in {Absent, PyInt(5)} :
        LET meta == [category |-> category, resolution |-> resolution,
                     type |-> type, is_disc |-> is_disc, genres |-> genres,
                     keywords |-> keywords, anime |-> anime, mal_id |-> mal_id]
        IN  /\ call' = [op |-> "MTEAM.get_category_id", meta |-> meta]
            /\ ret' = get_category_id(meta)
            /\ sent' = <<>>
    /\ UNCHANGED <<self, disk, tracker_status>>

DoSmallDescr ==
    /\ call.op = "none"
    /\ \E tracker \in {"AUDIENCES", "HHAN", "MTEAM"},
          title \in {Absent, PyStr(<<"H","e","a","t">>)},
          ptgen \in {Absent} \cup
                    { Ptgen(chinese_title, trans_title, genre) :
                        chinese_title \in {Absent, PyStr(<<>>), PyStr(<<"U+76D7", "U+706B">>)},
                        trans_title \in {Absent, PyStr(<<>>), StrList(<<>>),
                                         StrList(<< <<>> >>),
                                         StrList(<< <<"U+70C8">> >>),
                                         StrList(<< <<"U+70C8">>, <<"U+706B">> >>)},
                        genre \in {Absent, StrList(<<>>), StrList(<< <<"U+5267">> >>)} } :
        LET meta == [title |-> title, ptgen |-> ptgen]
        IN  /\ call' = [op |-> "small_descr", tracker |-> tracker, meta |-> meta]
            /\ ret' = Returned("str", PyStr(small_descr(tracker, meta)))
            /\ sent' = <<>>
    /\ UNCHANGED <<self, disk, tracker_status>>

DoAnonymous ==
    /\ call.op = "none"
    /\ \E tracker \in {"AUDIENCES", "HHAN", "MTEAM"},
          anon \in {Absent, PyBool(FALSE), PyBool(TRUE), PyInt(0), PyInt(1), PyInt(2)},
          config_anon \in {Absent, PyBool(FALSE), PyBool(TRUE)} :
        /\ call' = [op |-> "anonymous", tracker |-> tracker,
                    meta |-> [anon |-> anon], config_anon |-> config_anon]
        /\ ret' = Returned("field", anonymous(tracker, [anon |-> anon], config_anon))
        /\ sent' = <<>>
    /\ UNCHANGED <<self, disk, tracker_status>>

NextForm == DoCategoryId \/ DoSmallDescr \/ DoAnonymous \/ Done

SpecForm == Init /\ [][NextForm]_vars

-----------------------------------------------------------------------------
(* Claims on the form fields                                                *)

\* C25: MTEAM.get_category_id returns, for every meta, one of the ids 401,
\* 419, 420, 421, 439, 402, 403, 435, 438, 404, 405, 407, 409, never None
\* and never 0, so the test `if category_id:` of MTEAM.upload always passes
C25_CategoryIsAFixedId ==
    call.op = "MTEAM.get_category_id" =>
        /\ ret.kind = "return"
        /\ ret.val.t = "int"
        /\ ret.val.n \in {401, 419, 420, 421, 439, 402, 403, 435, 438, 404, 405, 407, 409}
        /\ Truthy(ret.val)

C25_Witness ==
    /\ call.op = "MTEAM.get_category_id"
    /\ StrOf(Get(call.meta.category, PyStr(<<>>))) \notin {<<"M","O","V","I","E">>, <<"T","V">>}
    /\ ret.val = PyInt(409)

\* the form is anonymous: uplver is 'yes', or anonymous is true
C29_Anonymous ==
    IF call.tracker = "MTEAM" THEN ret.val = PyBool(TRUE)
    ELSE ret.val = PyStr(<<"y","e","s">>)

\* the form is not anonymous: uplver left out or 'no', or anonymous is false
C29_NotAnonymous ==
    CASE call.tracker = "MTEAM"     -> ret.val = PyBool(FALSE)
      [] call.tracker = "AUDIENCES" -> ret.val = Absent
      [] OTHER                      -> ret.val = PyStr(<<"n","o">>)

\* C29: an upload is submitted as anonymous if and only if meta['anon'] is 1
\* or the config toggle anon is true; in every other case, a meta without
\* an anon key included, it is submitted as not anonymous
C29_AnonymousIffAsked ==
    call.op = "anonymous" =>
        IF PyEq(Get(call.meta.anon, PyNone), PyInt(1))
           \/ Truthy(Get(call.config_anon, PyBool(FALSE)))
        THEN C29_Anonymous
        ELSE C29_NotAnonymous

\* the value the adapter takes the translated title from
C30_Translated ==
    LET ptgen == Get(call.meta.ptgen, Ptgen(Absent, Absent, Absent))
        first == PyOr(Get(ptgen.chinese_title, PyStr(<<>>)), Get(ptgen.trans_title, PyStr(<<>>)))
    IN  IF call.tracker = "MTEAM" THEN first
        ELSE Get(ptgen.trans_title, PyStr(<<>>))

\* C30: the short description is meta['title'] whenever no translated title
\* is available (no ptgen record, or the translated-title field missing, an
\* empty list or an empty string), and otherwise starts with the translated
\* title
C30_TitleWhenNoTranslation ==
    call.op = "small_descr" =>
        IF ~Truthy(C30_Translated)
        THEN ret.val.s = StrOf(Get(call.meta.title, PyStr(<<>>)))
        ELSE StartsWith(ret.val.s,
                        Strip(IF C30_Translated.t = "list" THEN C30_Translated.s[1]
                              ELSE StrOf(C30_Translated)))

-----------------------------------------------------------------------------
(* U2: resolving an AniDB aid at ids.moe                                    *)

\* what ids.moe answers: a transport error, or a status with a body that is
\* not JSON ("invalid"), a JSON list, or a JSON object with the three keys
IdsAnswer(kind, status, json, imdb, themoviedb, myanimelist) ==
    [kind |-> kind, status |-> status, json |-> json,
     imdb |-> imdb, themoviedb |-> themoviedb, myanimelist |-> myanimelist]

\* the lookup without r.raise_for_status()
ResolveIgnoresStatus(ids_moe_api_key, answer) ==
    LET rq == Http("GET", "https://api.ids.moe/ids", "fresh")
    IN  IF ids_moe_api_key = <<>>
        THEN [data |-> (IdsAnswer("response", 200, "dict", Absent, Absent, Absent)), sent |-> <<>>]
        ELSE IF answer.kind = "raise" \/ answer.json = "invalid"
        THEN [data |-> (IdsAnswer("response", 200, "dict", Absent, Absent, Absent)), sent |-> <<rq>>]
        ELSE [data |-> answer, sent |-> <<rq>>]

\* U2._resolve_anidb_via_ids_moe(anidb_aid): the data and the request issued
_resolve_anidb_via_ids_moe(ids_moe_api_key, answer) ==
    LET rq == Http("GET", "https://api.ids.moe/ids", "fresh")
    IN  IF ids_moe_api_key = <<>>
        THEN [data |-> (IdsAnswer("response", 200, "dict", Absent, Absent, Absent)), sent |-> <<>>]
        ELSE IF answer.kind = "raise" \/ answer.status >= 400 \/ answer.json = "invalid"
        THEN [data |-> (IdsAnswer("response", 200, "dict", Absent, Absent, Absent)), sent |-> <<rq>>]
        ELSE [data |-> answer, sent |-> <<rq>>]

\* the end of U2.get_info_from_torrent_id, from the search for an AniDB aid
\* on: u2_imdb and u2_tmdb are what the page gave, meta is the caller's
\* record (has: whether one was passed); the ids returned, meta afterwards
\* and the requests issued
ResolveAnidb(ids_moe_api_key, u2_imdb, u2_tmdb, anidb_aid, meta, answer) ==
    LET lookup == /\ u2_imdb = PyNone \/ u2_tmdb = PyNone
                  /\ anidb_aid # PyNone
                  /\ ids_moe_api_key # <<>>
        ids == _resolve_anidb_via_ids_moe(ids_moe_api_key, answer)
        ids_data == ids.data
        \* int(v) answers, or raises TypeError or ValueError
        IsInt(v) == v.t = "int" \/ (v.t = "str" /\ IsDigit(Strip(v.s)))
        used == /\ lookup
                /\ ids_data.json = "dict"
                /\ \E k \in 1..3 :
                     <<ids_data.imdb, ids_data.themoviedb, ids_data.myanimelist>>[k].t # "absent"
        imdb_value == Get(ids_data.imdb, PyNone)
        stripped == Strip(StrOf(imdb_value))
        lead == CHOOSE i \in 0..Len(stripped) :
                    /\ \A j \in 1..i : stripped[j] = "t"
                    /\ i = Len(stripped) \/ stripped[i + 1] # "t"
        raw == SubSeq(stripped, lead + 1, Len(stripped))
        tmdb_value == Get(ids_data.themoviedb, PyNone)
        mal_value == Get(ids_data.myanimelist, PyNone)
        with_aid == IF meta.has /\ anidb_aid # PyNone
                    THEN [meta EXCEPT !.anidb_aid = anidb_aid] ELSE meta
    IN  [ imdb |-> IF used /\ u2_imdb = PyNone /\ Truthy(imdb_value) /\ IsDigit(raw)
                   THEN PyInt(ParseInt(raw)) ELSE u2_imdb,
          tmdb |-> IF used /\ u2_tmdb = PyNone /\ Truthy(tmdb_value) /\ IsInt(tmdb_value)
                   THEN PyInt(IntOf(tmdb_value)) ELSE u2_tmdb,
          meta |-> IF used /\ meta.has /\ Truthy(mal_value)
                      /\ ~Truthy(Get(meta.mal_id, PyNone)) /\ IsInt(mal_value)
                   THEN [with_aid EXCEPT !.mal_id = PyInt(IntOf(mal_value))]
                   ELSE with_aid,
          sent |-> IF lookup THEN ids.sent ELSE <<>> ]

DoResolveAnidb ==
    /\ call.op = "none"
    /\ self.tracker = "U2"
    /\ \E u2_imdb \in {PyNone, PyInt(88)}, u2_tmdb \in {PyNone, PyInt(99)},
          anidb_aid \in {PyNone, PyInt(4521)},
          has \in BOOLEAN, mal_id \in {Absent, PyInt(0), PyInt(7)},
          answer \in { IdsAnswer("raise", 0, "invalid", Absent, Absent, Absent) }
                     \cup { IdsAnswer("response", st, j, Absent, Absent, Absent) :
                              st \in {200, 404}, j \in {"invalid", "list", "dict"} }
                     \cup { IdsAnswer("response", st, "dict", i, t, m) :
                              st \in {200, 404},
                              i \in {PyNone, PyStr(<<"t","t","0","1","3","3","0","9","3">>), PyStr(<<"n","/","a">>)},
                              t \in {PyNone, PyInt(603), PyStr(<<"x">>)},
                              m \in {PyNone, PyInt(20)} } :
        LET meta == [has |-> has, mal_id |-> IF has THEN mal_id ELSE Absent,
                     anidb_aid |-> Absent]
            out == ResolveAnidb(self.ids_moe_api_key, u2_imdb, u2_tmdb, anidb_aid, meta, answer)
        IN  /\ has \/ mal_id = Absent
            /\ call' = [op |-> "U2.get_info_from_torrent_id", u2_imdb |-> u2_imdb,
                        u2_tmdb |-> u2_tmdb, anidb_aid |-> anidb_aid, meta |-> meta,
                        answer |-> answer]
            /\ ret' = Returned("tuple", [imdb |-> out.imdb, tmdb |-> out.tmdb, meta |-> out.meta])
            /\ sent' = out.sent
    /\ UNCHANGED <<self, disk, tracker_status>>

NextResolve == DoResolveAnidb \/ Done

SpecResolve == InitAdapter /\ [][NextResolve]_vars

-----------------------------------------------------------------------------
(* Claims on the ids.moe lookup                                             *)

\* the lookup at ids.moe did not answer data
C28_LookupFailed ==
    \/ call.answer.kind = "raise"
    \/ call.answer.status >= 400
    \/ call.answer.json = "invalid"

\* C28: in U2.get_info_from_torrent_id the ids.moe lookup is issued at most
\* once, and only when an AniDB aid was found, ids_moe_api_key is configured
\* and the IMDb or the TMDB id is still unknown; an id the page gave and a
\* meta['mal_id'] already set are never replaced by ids.moe values, and a
\* failing lookup leaves the results as the page gave them
C28_LookupOnlyFillsUnknown ==
    call.op = "U2.get_info_from_torrent_id" =>
        /\ Len(sent) <= 1
        /\ sent # <<>> =>
              /\ call.anidb_aid # PyNone
              /\ self.ids_moe_api_key # <<>>
              /\ call.u2_imdb = PyNone \/ call.u2_tmdb = PyNone
        /\ call.u2_imdb # PyNone => ret.val.imdb = call.u2_imdb
        /\ call.u2_tmdb # PyNone => ret.val.tmdb = call.u2_tmdb
        /\ Truthy(Get(call.meta.mal_id, PyNone)) => ret.val.meta.mal_id = call.meta.mal_id
        /\ C28_LookupFailed =>
              /\ ret.val.imdb = call.u2_imdb
              /\ ret.val.tmdb = call.u2_tmdb
              /\ ret.val.meta.mal_id = call.meta.mal_id

C28_Witness ==
    /\ call.op = "U2.get_info_from_torrent_id"
    /\ Len(sent) = 1
    /\ call.u2_imdb = PyInt(88)
    /\ call.meta.mal_id = PyInt(7)
    /\ call.answer.imdb = PyStr(<<"t","t","0","1","3","3","0","9","3">>)
    /\ call.answer.myanimelist = PyInt(20)
    /\ ret.val.imdb = PyInt(88)
    /\ ret.val.tmdb = PyInt(603)
    /\ ret.val.meta.mal_id = PyInt(7)

-----------------------------------------------------------------------------
(* Two uploads on one adapter instance, interleaved at their await points   *)

\* the two callers; caller p uploads the release whose uuid is p
Procs == {1, 2}

\* every release under one working directory
PathSharedByReleases(uuid) == <<"tmp", 0>>

\* the working directory of a release: {base_dir}/tmp/{meta['uuid']}, where
\* its description and its torrent file live
PathOf(uuid) == <<"tmp", uuid>>

\* upload is awaited by no one yet: no adapter operation writes a field of
\* self, the files are per release, the status is part of the caller's meta
InitInterleave ==
    /\ self \in { a \in Adapters : a.tracker \in {"AUDIENCES", "HHAN", "HDSKY", "MTEAM"} }
    /\ call = [p \in Procs |-> [pc |-> "idle"]]
    /\ ret = [p \in Procs |-> NoResult]
    /\ sent = [p \in Procs |-> <<>>]
    /\ \E c \in IF self.tracker = "MTEAM" THEN {FALSE} ELSE BOOLEAN :
          disk = [f \in {PathOf(p) : p \in Procs} |-> Disk(c, FALSE, <<>>, "absent")]
    /\ tracker_status = [p \in Procs |-> TrackerStatus(PyNone, PyNone, PyNone)]

\* a caller awaits upload(meta): the release, its meta and what the sites
\* are going to answer
Begin(p) ==
    /\ call[p].pc = "idle"
    /\ \E dbg \in BOOLEAN, imdb_id \in {PyInt(0), PyInt(133093)},
          env \in { x \in UploadEnvs(self.tracker) :
                      /\ x.post.kind = "response"
                      /\ x.ptgen # <<>> \/ (x.get.kind = "response" /\ x.get.status = 200) } :
        call' = [call EXCEPT ![p] =
                    [pc |-> "torrent", uuid |-> p, env |-> env, ptgen |-> FALSE,
                     meta |-> UploadMeta(dbg, imdb_id, FALSE, IF p = 1 THEN "1" ELSE "2")]]
    /\ UNCHANGED <<ret, sent, self, disk, tracker_status>>

\* await common.create_torrent_for_upload(meta, ...)
CreateTorrent(p) ==
    /\ call[p].pc = "torrent"
    /\ disk' = [disk EXCEPT ![PathOf(call[p].uuid)] = [@ EXCEPT !.torrent = "created"]]
    /\ call' = [call EXCEPT ![p].pc = "description"]
    /\ UNCHANGED <<ret, sent, self, tracker_status>>

\* if not os.path.exists(desc_file): await self.edit_desc(meta)
EditDesc(p) ==
    /\ call[p].pc = "description"
    /\ LET f == PathOf(call[p].uuid)
           d == PrepareDescription(self.tracker, disk[f], call[p].meta, call[p].env.ptgen)
       IN  /\ disk' = [disk EXCEPT ![f] = d.disk]
           /\ sent' = [sent EXCEPT ![p] = d.sent]
           /\ call' = [call EXCEPT ![p].pc = "submit", ![p].ptgen = d.ptgen]
    /\ UNCHANGED <<ret, self, tracker_status>>

\* the description is read back, the form is built and submitted, and the
\* new torrent is asked for; what is left to write is kept in rest
SubmitForm(p) ==
    /\ call[p].pc = "submit"
    /\ LET f == PathOf(call[p].uuid)
           meta == [call[p].meta EXCEPT !.ptgen = call[p].ptgen]
           out == upload(self, disk[f], tracker_status[p], meta, call[p].env)
       IN  /\ sent' = [sent EXCEPT ![p] = @ \o out.sent]
           /\ call' = [call EXCEPT ![p] =
                          [pc |-> "finish", uuid |-> call[p].uuid, env |-> call[p].env,
                           ptgen |-> call[p].ptgen, meta |-> call[p].meta, rest |-> out]]
    /\ UNCHANGED <<ret, self, disk, tracker_status>>

\* the downloaded torrent and meta['tracker_status'] are written; upload
\* returns or raises
Finish(p) ==
    /\ call[p].pc = "finish"
    /\ LET f == PathOf(call[p].uuid)
           out == call[p].rest
       IN  /\ disk' = [disk EXCEPT ![f] = [@ EXCEPT !.torrent = out.disk.torrent]]
           /\ tracker_status' = [tracker_status EXCEPT ![p] = out.tracker_status]
           /\ ret' = [ret EXCEPT ![p] = out.ret]
           /\ call' = [call EXCEPT ![p].pc = "done"]
    /\ UNCHANGED <<sent, self>>

NextInterleave ==
    \E p \in Procs :
        Begin(p) \/ CreateTorrent(p) \/ EditDesc(p) \/ SubmitForm(p) \/ Finish(p)

SpecInterleave == InitInterleave /\ [][NextInterleave]_vars

-----------------------------------------------------------------------------
(* Claims on concurrent use of one adapter                                  *)

\* what upload gives for the release of p when nothing else runs
C23_Alone(p) ==
    upload(self, Disk(disk[PathOf(call[p].uuid)].cookie, FALSE, <<>>, "absent"),
           TrackerStatus(PyNone, PyNone, PyNone), call[p].meta, call[p].env)

\* a finished upload has the outcome, the requests, the files and the status
\* of the same upload run alone
C23_SameAsAlone ==
    \A p \in Procs :
        call[p].pc = "done" =>
            /\ ret[p] = C23_Alone(p).ret
            /\ sent[p] = C23_Alone(p).sent
            /\ disk[PathOf(call[p].uuid)] = C23_Alone(p).disk
            /\ tracker_status[p] = C23_Alone(p).tracker_status

\* C23: no operation writes a field of the adapter instance, so two uploads
\* on one instance for different releases, interleaved at any await point,
\* each end with the results they have when run one after the other
C23_InterleavedAsSequential ==
    /\ [](C23_SameAsAlone)
    /\ [][self' = self]_vars

C23_Witness ==
    /\ call[1].pc = "done"
    /\ call[2].pc = "done"
    /\ sent[1] # <<>>
    /\ sent[2] # <<>>
    /\ disk[PathOf(1)].desc # disk[PathOf(2)].desc
    /\ ret[1] # ret[2]
=============================================================================
